---- MODULE Spec2Model ----
(***************************************************************************)
(* Asynchronous task lifecycle of the safety-report server.                *)
(*                                                                         *)
(* Two server variants keep the same in-memory task store                  *)
(* (src/server.js and src/api/server.js); the variable `variant' says      *)
(* which one is deployed.  JavaScript runs every callback to completion:   *)
(* `running' names the task whose pipeline holds the thread between two    *)
(* awaits, and every other callback waits until it is 0.  Each write to    *)
(* the task store is one step of the model, so that every value ever       *)
(* written to a record is a state.                                         *)
(*                                                                         *)
(* Time is counted in sweep periods of 30 minutes (the 1800000 ms of the   *)
(* setInterval): the timer callback of a period runs before the next       *)
(* period has passed.  The fields updated_at and timestamp are left out:   *)
(* nothing reads them.                                                     *)
(***************************************************************************)
EXTENDS Integers, Sequences, FiniteSets, TLC

\* ---------------------------------------------------------------- bounds
MaxTasks == 2
MaxFiles == 1
MaxTime == 4
MaxImages == 3

\* ------------------------------------------------------ program constants
\* retention window of cleanupOldTasks, 3600000 ms, in sweep periods
Retention == 2
\* upload.array('images', 10)
UploadLimit == 10
\* maxPolls of pollTaskStatus
maxPolls == 60

VARIABLES
    variant,        \* "main" (src/server.js) or "vercel" (src/api/server.js)
    ragSystemReady, \* checkRAGSystem() at start-up
    now,            \* Date.now(), in sweep periods of 30 minutes
    nextId,         \* the next identifier uuidv4() hands out
    taskStorage,    \* the Map: a function from the ids in the store to records
    pc,             \* position of each task's pipeline
    loc,            \* locals of each task's pipeline
    running,        \* the task whose pipeline holds the thread, or 0
    responded,      \* the tasks whose submission response has been written
    resp,           \* the HTTP exchange of the last step: the request and the
                    \* response written, if the step was a request handler
    uploads,        \* the number of files received so far
    calls,          \* per task: has it called a collaborator, has one call succeeded
    poll,           \* the client's pollTaskStatus loop
    ragCall,        \* the child process and the timer of callRAGSystem
    debrief         \* the request POST /api/post_date_debrief is working on

vars == <<variant, ragSystemReady, now, nextId, taskStorage, pc, loc, running,
          responded, resp, uploads, calls, poll, ragCall, debrief>>

Ids == 1..MaxTasks

\* ---------------------------------------------------------------- values
PENDING == "pending"
PROCESSING == "processing"
COMPLETED == "completed"
FAILED == "failed"

Null == [null |-> TRUE]

\* no response written
NoResp == [kind |-> "none"]

\* String.prototype.trim on a sequence of characters
RECURSIVE TrimStart(_)
TrimStart(s) ==
    IF s = <<>> THEN <<>>
    ELSE IF Head(s) = " " THEN TrimStart(Tail(s)) ELSE s

RECURSIVE TrimEnd(_)
TrimEnd(s) ==
    IF s = <<>> THEN <<>>
    ELSE IF s[Len(s)] = " " THEN TrimEnd(SubSeq(s, 1, Len(s) - 1)) ELSE s

Trim(s) == TrimEnd(TrimStart(s))

\* !userInfo.nickname.trim()
NicknameMissing(userInfo) == Trim(userInfo.nickname) = <<>>

\* a first stage that also insists on a description
Stage1RequiresBio(userInfo) ==
    Trim(userInfo.nickname) = <<>> \/ userInfo.bioOrChatHistory = ""

\* a first stage that tests the nickname without trimming it
Stage1Untrimmed(userInfo) == userInfo.nickname = <<>>

\* stage 1 of the pipeline: if (!userInfo.nickname.trim()) throw
Stage1Invalid(userInfo) == Trim(userInfo.nickname) = <<>>

\* the error both the endpoint and stage 1 report for a missing nickname
ValidationError == [message |-> "nickname must not be empty"]

\* a TypeError or spawn error thrown by the runtime
RuntimeError == [message |-> "spawn failed"]

\* generateFallbackReport()
generateFallbackReport == [risk_level |-> "unknown", note |-> "fallback"]

\* ------------------------------------------------------------- task store
\* a record that starts in the first stage instead of waiting for it
NewTaskInProgress(taskId, initialData) ==
    [id |-> taskId, status |-> PROCESSING, progress |-> 10, current_step |-> "",
     created_at |-> now, input_data |-> initialData, result |-> Null,
     error |-> Null, processing_time |-> 0]

\* createTask: the record a new task starts with
NewTask(taskId, initialData) ==
    [id |-> taskId, status |-> PENDING, progress |-> 0, current_step |-> "",
     created_at |-> now, input_data |-> initialData, result |-> Null,
     error |-> Null, processing_time |-> 0]

createTask(store, taskId, initialData) ==
    [k \in DOMAIN store \cup {taskId} |->
        IF k = taskId THEN NewTask(taskId, initialData) ELSE store[k]]

\* an update that puts a record back under an id the store no longer holds
updateTaskStatusRevives(store, taskId, status, currentStep, progress) ==
    [k \in DOMAIN store \cup {taskId} |->
        IF k = taskId
        THEN [id |-> taskId, status |-> status, progress |-> progress,
              current_step |-> currentStep, created_at |-> now,
              input_data |-> Null, result |-> Null, error |-> Null,
              processing_time |-> 0]
        ELSE store[k]]

\* an update that also stamps the record with the time of the update
updateTaskStatusRestamps(store, taskId, status, currentStep, progress) ==
    IF taskId \notin DOMAIN store THEN store
    ELSE [store EXCEPT ![taskId].status = status,
                       ![taskId].current_step = currentStep,
                       ![taskId].progress = progress,
                       ![taskId].created_at = now]

updateTaskStatus(store, taskId, status, currentStep, progress) ==
    IF taskId \notin DOMAIN store THEN store
    ELSE [store EXCEPT ![taskId].status = status,
                       ![taskId].current_step = currentStep,
                       ![taskId].progress = progress]

\* a lookup that answers with a blank record for an id the store does not hold
getTaskOrBlank(store, taskId) ==
    IF taskId \in DOMAIN store THEN store[taskId] ELSE NewTask(taskId, Null)

getTask(store, taskId) ==
    IF taskId \in DOMAIN store THEN store[taskId] ELSE Null

\* setTaskResult that stores the result under the id even if the store no
\* longer holds it
setTaskResultRevives(store, taskId, result) ==
    [k \in DOMAIN store \cup {taskId} |->
        IF k = taskId
        THEN [id |-> taskId, status |-> COMPLETED, progress |-> 100,
              current_step |-> "", created_at |-> now, input_data |-> Null,
              result |-> result, error |-> Null, processing_time |-> 0]
        ELSE store[k]]

\* setTaskResult that leaves processing_time as createTask set it
setTaskResultUntimed(store, taskId, result) ==
    IF taskId \notin DOMAIN store THEN store
    ELSE [store EXCEPT ![taskId].result = result,
                       ![taskId].status = COMPLETED,
                       ![taskId].progress = 100]

\* a result that is never written to the record
setTaskResultDropped(store, taskId, result) == store

setTaskResult(store, taskId, result) ==
    IF taskId \notin DOMAIN store THEN store
    ELSE [store EXCEPT ![taskId].result = result,
                       ![taskId].status = COMPLETED,
                       ![taskId].progress = 100,
                       ![taskId].processing_time = now - store[taskId].created_at]

\* setTaskError that records the message but leaves the status as it was
setTaskErrorKeepsStatus(store, taskId, error) ==
    IF taskId \notin DOMAIN store THEN store
    ELSE [store EXCEPT ![taskId].error = [message |-> error.message],
                       ![taskId].processing_time = now - store[taskId].created_at]

\* task.error is the message, kept in a record so that it differs from Null
setTaskError(store, taskId, error) ==
    IF taskId \notin DOMAIN store THEN store
    ELSE [store EXCEPT ![taskId].error = [message |-> error.message],
                       ![taskId].status = FAILED,
                       ![taskId].processing_time = now - store[taskId].created_at]

\* a sweep that keeps the record of an expired task as a marker
cleanupLeavesMarker(store) ==
    [k \in DOMAIN store |->
        IF store[k].created_at < now - Retention
        THEN [store[k] EXCEPT !.status = "expired", !.result = Null]
        ELSE store[k]]

\* a sweep that spares the tasks still pending or processing
cleanupFinishedTasks(store) ==
    [k \in {j \in DOMAIN store :
                \/ ~(store[j].created_at < now - Retention)
                \/ store[j].status \in {PENDING, PROCESSING}} |-> store[k]]

\* a sweep that also removes the tasks exactly as old as the window
cleanupAtWindow(store) ==
    [k \in {j \in DOMAIN store : ~(store[j].created_at <= now - Retention)} |-> store[k]]

cleanupOldTasks(store) ==
    [k \in {j \in DOMAIN store : ~(store[j].created_at < now - Retention)} |-> store[k]]

\* ------------------------------------------------------------------ input
\* a form field is <<>> when the request leaves it out, <<v>> when it holds v
NicknameFields == {<<>>, << <<>> >>, << <<" ", " ">> >>, << <<" ", "A">> >>}
BioFields == {<<>>, <<"bio">>}

\* req.body.field || ''
OrEmpty(field, empty) == IF field = <<>> THEN empty ELSE field[1]

\* the userInfo object both endpoints build from the request body
UserInfo(nickname, bio) ==
    [nickname |-> OrEmpty(nickname, <<>>), profession |-> "", age |-> "",
     bioOrChatHistory |-> OrEmpty(bio, "")]

\* req.files: the size of each uploaded file, 0 for an empty upload
RECURSIVE FileLists(_)
FileLists(n) ==
    IF n = 0 THEN {<<>>}
    ELSE FileLists(n - 1) \cup
         {Append(f, z) : f \in {g \in FileLists(n - 1) : Len(g) = n - 1}, z \in {0, 1}}

\* a request carrying one file more than upload.array('images', 10) admits
TooManyFiles == [j \in 1..(UploadLimit + 1) |-> 1]

\* multer's LIMIT_UNEXPECTED_FILE, passed to next(err)
UploadError == [message |-> "Unexpected field"]

\* the locals of a pipeline that has not started or has returned
NoLocals ==
    [userInfo |-> Null, files |-> <<>>, disk |-> {}, valid |-> <<>>, i |-> 0,
     classification |-> "", imageAnalyses |-> <<>>, enhancedQuery |-> Null,
     ragKnowledge |-> Null, ragLost |-> FALSE, finalReport |-> Null,
     error |-> Null]

\* the poller before pollTaskStatus is called
NotPolling ==
    [state |-> "idle", taskId |-> 0, i |-> 0, requests |-> 0, saw |-> "none",
     last |-> "none", errors |-> FALSE, out |-> Null]

\* no request to POST /api/post_date_debrief has been received
NoDebrief ==
    [pc |-> "idle", user_input |-> "", audio |-> FALSE, transcription |-> Null,
     intent |-> "", enhancedQuery |-> "", rag |-> "", outcome |-> Null]

\* callRAGSystem has not been called
NotCalled ==
    [server |-> "none", proc |-> "none", timer |-> "none", elapsed |-> 0,
     events |-> <<>>, settledAt |-> 0]

Init ==
    /\ variant \in {"main", "vercel"}
    /\ ragSystemReady \in (IF variant = "main" THEN BOOLEAN ELSE {FALSE})
    /\ now = 0
    /\ nextId = 1
    /\ taskStorage = [k \in {} |-> Null]
    /\ pc = [t \in Ids |-> "none"]
    /\ loc = [t \in Ids |-> NoLocals]
    /\ running = 0
    /\ responded = {}
    /\ resp = NoResp
    /\ uploads = 0
    /\ calls = [t \in Ids |-> [made |-> FALSE, succeeded |-> FALSE]]
    /\ poll = NotPolling
    /\ ragCall = NotCalled
    /\ debrief = NoDebrief

\* task t calls a collaborator
Called(t) == [calls EXCEPT ![t].made = TRUE]

\* a collaborator call of task t returns, with success or not
Returned(t, ok) == [calls EXCEPT ![t].succeeded = @ \/ ok]

Max(a, b) == IF a > b THEN a ELSE b

\* ------------------------------------------------------- submission endpoint
\* a submission response that is never put on the wire
ResponseWithheld(sent, taskId) == sent

\* res.json(response): the response of task taskId is on the wire
ResponseWritten(sent, taskId) == sent \cup {taskId}

\* upload.array('images', 10) refuses a request with more than 10 files: the
\* files already stored are removed and the error goes to the error handler,
\* which answers 500; the route handler does not run
\* (stored: the files of the request on local storage when the answer is sent)
UploadRefused(userInfo, n) ==
    [kind |-> "submit", request |-> userInfo, attachments |-> n, code |-> 500,
     success |-> FALSE, error |-> UploadError, stored |-> 0]

\* POST /api/generate_warning_report of src/server.js
SubmitMain(nickname, bio, files) ==
    /\ variant = "main"
    /\ running = 0
    /\ LET userInfo == UserInfo(nickname, bio)
           taskId == nextId
       IN  IF Len(files) > UploadLimit
           THEN /\ resp' = UploadRefused(userInfo, Len(files))
                /\ UNCHANGED <<nextId, taskStorage, pc, loc, responded, uploads>>
           ELSE IF NicknameMissing(userInfo)
           THEN /\ resp' = [kind |-> "submit", request |-> userInfo,
                            attachments |-> Len(files), code |-> 400,
                            success |-> FALSE, error |-> ValidationError,
                            \* the files multer wrote stay where they are
                            stored |-> Len(files)]
                /\ uploads' = uploads + Len(files)
                /\ UNCHANGED <<nextId, taskStorage, pc, loc, responded>>
           ELSE /\ nextId <= MaxTasks
                /\ taskStorage' = createTask(taskStorage, taskId,
                                    [userInfo |-> userInfo, filesCount |-> Len(files)])
                /\ nextId' = nextId + 1
                /\ resp' = [kind |-> "submit", request |-> userInfo,
                            attachments |-> Len(files), code |-> 200,
                            success |-> TRUE, task_id |-> taskId,
                            estimated_time |-> Max(30, Len(files) * 20 + 60),
                            status_check_url |-> taskId,
                            system_info |-> [processing_mode |-> "async"]]
                /\ responded' = ResponseWritten(responded, taskId)
                \* setImmediate(() => processAnalysisTask(taskId, userInfo, uploadedFiles))
                /\ pc' = [pc EXCEPT ![taskId] = "scheduled"]
                /\ loc' = [loc EXCEPT ![taskId] =
                              [NoLocals EXCEPT !.userInfo = userInfo, !.files = files,
                                               !.disk = 1..Len(files)]]
                /\ uploads' = uploads + Len(files)
    /\ UNCHANGED <<variant, ragSystemReady, now, running, calls, poll, ragCall, debrief>>

\* POST /api/generate_warning_report of src/api/server.js; the uploads stay in
\* memory and the handler goes on into processAnalysisVercel
SubmitVercel(nickname, bio, nfiles) ==
    /\ variant = "vercel"
    /\ running = 0
    /\ LET userInfo == UserInfo(nickname, bio)
           taskId == nextId
       IN  IF nfiles > UploadLimit
           THEN /\ resp' = UploadRefused(userInfo, nfiles)
                /\ UNCHANGED <<nextId, taskStorage, pc, loc, responded, uploads,
                               running>>
           ELSE /\ nextId <= MaxTasks
                /\ taskStorage' = createTask(taskStorage, taskId, userInfo)
                /\ nextId' = nextId + 1
                /\ resp' = [kind |-> "submit", request |-> userInfo,
                            attachments |-> nfiles, code |-> 200, success |-> TRUE,
                            task_id |-> taskId, estimated_time |-> 30,
                            status_check_url |-> taskId]
                /\ responded' = ResponseWritten(responded, taskId)
                /\ pc' = [pc EXCEPT ![taskId] = "v_start"]
                /\ loc' = [loc EXCEPT ![taskId] =
                              [NoLocals EXCEPT !.userInfo = userInfo]]
                /\ running' = taskId
                /\ uploads' = uploads + nfiles
    /\ UNCHANGED <<variant, ragSystemReady, now, calls, poll, ragCall, debrief>>

\* ------------------------------------------------------------ status endpoint
\* GET /api/report_status/:taskId, the body it answers with
StatusResponse(store, taskId) ==
    LET task == getTask(store, taskId)
    IN  IF task = Null
        THEN [kind |-> "status", code |-> 404, success |-> FALSE,
              error |-> "task not found or expired", task_id |-> taskId]
        ELSE IF task.status = COMPLETED /\ task.result # Null
        THEN [kind |-> "status", code |-> 200, success |-> TRUE, task_id |-> taskId,
              status |-> task.status, progress |-> task.progress,
              current_step |-> task.current_step, created_at |-> task.created_at,
              completed |-> TRUE, result |-> task.result,
              processing_time |-> task.processing_time]
        ELSE IF task.status = FAILED
        THEN IF variant = "main"
             THEN [kind |-> "status", code |-> 200, success |-> TRUE,
                   task_id |-> taskId, status |-> task.status,
                   progress |-> task.progress, current_step |-> task.current_step,
                   created_at |-> task.created_at, completed |-> TRUE,
                   failed |-> TRUE, error |-> task.error,
                   processing_time |-> task.processing_time,
                   fallback_report |-> generateFallbackReport]
             ELSE [kind |-> "status", code |-> 200, success |-> TRUE,
                   task_id |-> taskId, status |-> task.status,
                   progress |-> task.progress, current_step |-> task.current_step,
                   created_at |-> task.created_at, completed |-> TRUE,
                   failed |-> TRUE, error |-> task.error]
        ELSE [kind |-> "status", code |-> 200, success |-> TRUE, task_id |-> taskId,
              status |-> task.status, progress |-> task.progress,
              current_step |-> task.current_step, created_at |-> task.created_at,
              completed |-> FALSE,
              message |-> IF task.current_step # "" THEN task.current_step
                          ELSE "processing"]

\* a query that hands a finished task over once and drops it from the store
StatusQueryConsumes(taskId) ==
    /\ running = 0
    /\ resp' = StatusResponse(taskStorage, taskId)
    /\ taskStorage' =
           [k \in {j \in DOMAIN taskStorage :
                       j # taskId \/ taskStorage[j].status \in {PENDING, PROCESSING}}
               |-> taskStorage[k]]
    /\ UNCHANGED <<variant, ragSystemReady, now, nextId, pc, loc, running,
                   responded, uploads, calls, poll, ragCall, debrief>>

StatusQuery(taskId) ==
    /\ running = 0
    /\ resp' = StatusResponse(taskStorage, taskId)
    /\ UNCHANGED <<variant, ragSystemReady, now, nextId, taskStorage, pc, loc, running,
                   responded, uploads, calls, poll, ragCall, debrief>>

\* ------------------------------------------------------------ time and sweep
\* a period passes whether the sweep of the period before has run or not
TickUnswept ==
    /\ running = 0
    /\ now < MaxTime
    /\ now' = now + 1
    /\ resp' = NoResp
    /\ UNCHANGED <<variant, ragSystemReady, nextId, taskStorage, pc, loc, running,
                   responded, uploads, calls, poll, ragCall, debrief>>

\* a sweep period passes; in src/server.js the sweep of the period before has
\* run (src/api/server.js has no sweep)
Tick ==
    /\ running = 0
    /\ now < MaxTime
    /\ variant = "main" => cleanupOldTasks(taskStorage) = taskStorage
    /\ now' = now + 1
    /\ resp' = NoResp
    /\ UNCHANGED <<variant, ragSystemReady, nextId, taskStorage, pc, loc, running,
                   responded, uploads, calls, poll, ragCall, debrief>>

\* setInterval(cleanupOldTasks, 1800000), of src/server.js only
Sweep ==
    /\ variant = "main"
    /\ running = 0
    /\ taskStorage' = cleanupOldTasks(taskStorage)
    /\ resp' = NoResp
    /\ UNCHANGED <<variant, ragSystemReady, now, nextId, pc, loc, running, responded,
                   uploads, calls, poll, ragCall, debrief>>

\* ------------------------------------------- pipeline of src/server.js
\* a progress display that starts from 0: every value is 10 lower
ProgressFromZero(t, step, progress) ==
    taskStorage' = updateTaskStatus(taskStorage, t, PROCESSING, step, progress - 10)

\* a status update that reaches every task in progress, as if the pipelines
\* shared one current task
ProgressShared(t, step, progress) ==
    taskStorage' =
        [k \in DOMAIN taskStorage |->
            IF k = t \/ taskStorage[k].status = PROCESSING
            THEN [taskStorage[k] EXCEPT !.status = PROCESSING,
                                        !.current_step = step,
                                        !.progress = progress]
            ELSE taskStorage[k]]

\* updateTaskStatus(taskId, TaskStatus.PROCESSING, step, progress)
Progress(t, step, progress) ==
    taskStorage' = updateTaskStatus(taskStorage, t, PROCESSING, step, progress)

\* the loop counting down instead of up
ImageProgressCountsDown(i, n) == 50 - ((40 * i + n) \div (2 * n))

\* the share of the images done, as a percentage of the whole task
ImageProgressOfWhole(i, n) == (200 * (i + 1) + n) \div (2 * n)

\* 30 + Math.round((i / validImageFiles.length) * 20)
ImageProgress(i, n) == 30 + ((40 * i + n) \div (2 * n))

\* uploadedFiles.filter(file => file && file.path && fs.existsSync(file.path) && file.size > 0)
RECURSIVE ValidFrom(_, _, _)
ValidFrom(files, disk, j) ==
    IF j > Len(files) THEN <<>>
    ELSE IF j \in disk /\ files[j] > 0
         THEN <<j>> \o ValidFrom(files, disk, j + 1)
         ELSE ValidFrom(files, disk, j + 1)

validImageFiles(files, disk) == ValidFrom(files, disk, 1)

\* a catch block that swallows the error and goes on to build the response
AfterCatchFallsThrough == "result"

\* where the pipeline goes once its catch block has written the error
AfterCatch == "return"

\* the setImmediate callback: processAnalysisTask starts
StartTask(t) ==
    /\ running = 0
    /\ pc[t] = "scheduled"
    /\ Progress(t, "validation started", 10)
    /\ pc' = [pc EXCEPT ![t] = "validate"]
    /\ running' = t
    /\ resp' = NoResp
    /\ UNCHANGED <<variant, ragSystemReady, now, nextId, loc, responded, uploads,
                   calls, poll, ragCall, debrief>>

\* stage 1: if (!userInfo.nickname.trim()) throw
Validate(t) ==
    /\ running = t
    /\ pc[t] = "validate"
    /\ IF Stage1Invalid(loc[t].userInfo)
       THEN /\ loc' = [loc EXCEPT ![t].error = ValidationError]
            /\ pc' = [pc EXCEPT ![t] = "catch"]
            /\ UNCHANGED taskStorage
       ELSE /\ Progress(t, "validation done", 20)
            /\ pc' = [pc EXCEPT ![t] = "filter"]
            /\ UNCHANGED loc
    /\ resp' = NoResp
    /\ UNCHANGED <<variant, ragSystemReady, now, nextId, running, responded, uploads,
                   calls, poll, ragCall, debrief>>

\* stage 2 begins: the valid files are picked and counted
FilterFiles(t) ==
    /\ running = t
    /\ pc[t] = "filter"
    /\ LET valid == validImageFiles(loc[t].files, loc[t].disk)
       IN  /\ loc' = [loc EXCEPT ![t].valid = valid, ![t].i = 0]
           /\ IF Len(valid) > 0
              THEN /\ Progress(t, "analysing images", 30)
                   /\ pc' = [pc EXCEPT ![t] = "item"]
              ELSE /\ Progress(t, "no images", 50)
                   /\ pc' = [pc EXCEPT ![t] = "expand"]
    /\ resp' = NoResp
    /\ UNCHANGED <<variant, ragSystemReady, now, nextId, running, responded, uploads,
                   calls, poll, ragCall, debrief>>

\* the loop body up to await classifyImageWithGPT4o
ItemStart(t) ==
    /\ running = t
    /\ pc[t] = "item"
    /\ Progress(t, "processing image", ImageProgress(loc[t].i, Len(loc[t].valid)))
    /\ calls' = Called(t)
    /\ pc' = [pc EXCEPT ![t] = "await_classify"]
    /\ running' = 0
    /\ resp' = NoResp
    /\ UNCHANGED <<variant, ragSystemReady, now, nextId, loc, responded, uploads, poll, ragCall, debrief>>

\* a loop that keeps no entry for an item whose analysis failed
ItemDoneDropsErrors(l, entry) ==
    [l EXCEPT !.imageAnalyses = IF entry.classification = "error" THEN @
                                ELSE Append(@, entry),
              !.disk = @ \ {l.valid[l.i + 1]},
              !.i = @ + 1,
              !.classification = ""]

\* imageAnalyses.push(entry); fs.unlinkSync(file.path); i++
ItemDone(l, entry) ==
    [l EXCEPT !.imageAnalyses = Append(@, entry),
              !.disk = @ \ {l.valid[l.i + 1]},
              !.i = @ + 1,
              !.classification = ""]

\* the error marker pushed by catch (imageError)
ErrorMarker(file) == [filename |-> file, classification |-> "error", success |-> FALSE]

\* a loop that gives up on the remaining items once one has been handled
AfterItemGivesUp(i, n) == "expand"

\* the pipeline position after item i of n
AfterItem(i, n) == IF i + 1 < n THEN "item" ELSE "expand"

\* classifyImageWithGPT4o returns: "chat", "photo", or success:false
ClassifyReturn(t, c) ==
    /\ running = 0
    /\ pc[t] = "await_classify"
    /\ IF c = "fail"
       THEN /\ loc' = [loc EXCEPT ![t] = ItemDone(@, ErrorMarker(@.valid[@.i + 1]))]
            /\ pc' = [pc EXCEPT ![t] = AfterItem(loc[t].i, Len(loc[t].valid))]
            /\ running' = t
            /\ calls' = Returned(t, FALSE)
       ELSE /\ loc' = [loc EXCEPT ![t].classification = c]
            /\ pc' = [pc EXCEPT ![t] = "await_analyze"]
            /\ running' = 0
            /\ calls' = Returned(t, TRUE)
    /\ resp' = NoResp
    /\ UNCHANGED <<variant, ragSystemReady, now, nextId, taskStorage, responded,
                   uploads, poll, ragCall, debrief>>

\* analyzeChatImageWithGPT4o / analyzePhotoImageWithGPT4o returns
AnalyzeReturn(t, ok) ==
    /\ running = 0
    /\ pc[t] = "await_analyze"
    /\ loc' = [loc EXCEPT ![t] =
                  ItemDone(@, [filename |-> @.valid[@.i + 1],
                               classification |-> @.classification, success |-> ok])]
    /\ pc' = [pc EXCEPT ![t] = AfterItem(loc[t].i, Len(loc[t].valid))]
    /\ running' = t
    /\ calls' = Returned(t, ok)
    /\ resp' = NoResp
    /\ UNCHANGED <<variant, ragSystemReady, now, nextId, taskStorage, responded,
                   uploads, poll, ragCall, debrief>>

\* stage 3 up to await enhanceQueryWithAI
ExpandStart(t) ==
    /\ running = t
    /\ pc[t] = "expand"
    /\ Progress(t, "optimising query", 55)
    /\ calls' = Called(t)
    /\ pc' = [pc EXCEPT ![t] = "await_enhance"]
    /\ running' = 0
    /\ resp' = NoResp
    /\ UNCHANGED <<variant, ragSystemReady, now, nextId, loc, responded, uploads, poll, ragCall, debrief>>

\* userInfo.bioOrChatHistory || `${nickname} ${profession} ...`
FallbackQuery(userInfo) ==
    IF userInfo.bioOrChatHistory # ""
    THEN [kind |-> "original", text |-> userInfo.bioOrChatHistory]
    ELSE [kind |-> "composed", nickname |-> userInfo.nickname,
          profession |-> userInfo.profession]

\* what enhanceQueryWithAI of src/server_r2.js returns from its catch block: a
\* fixed query, whatever the caller wrote
FallbackQueryR2 == [kind |-> "canned"]

\* callRAGSystem: const actualQuery = enhancedQuery || userInfo.bioOrChatHistory || ''
actualQuery(userInfo, enhancedQuery) ==
    IF enhancedQuery # Null THEN enhancedQuery
    ELSE [kind |-> "original", text |-> userInfo.bioOrChatHistory]

\* enhanceQueryWithAI returns
EnhanceReturn(t, ok) ==
    /\ running = 0
    /\ pc[t] = "await_enhance"
    /\ loc' = [loc EXCEPT ![t].enhancedQuery =
                  IF ok THEN [kind |-> "enhanced"] ELSE FallbackQuery(loc[t].userInfo)]
    /\ calls' = Returned(t, ok)
    /\ Progress(t, "query optimised", 58)
    /\ pc' = [pc EXCEPT ![t] = "rag"]
    /\ running' = t
    /\ resp' = NoResp
    /\ UNCHANGED <<variant, ragSystemReady, now, nextId, responded, uploads, poll, ragCall, debrief>>

\* stage 4 up to await callRAGSystem
RagStart(t) ==
    /\ running = t
    /\ pc[t] = "rag"
    /\ Progress(t, "retrieving knowledge", 60)
    /\ IF ragSystemReady
       THEN /\ calls' = Called(t)
            /\ pc' = [pc EXCEPT ![t] = "await_rag"]
            /\ running' = 0
            /\ UNCHANGED loc
       ELSE /\ loc' = [loc EXCEPT ![t].ragKnowledge = generateFallbackReport]
            /\ pc' = [pc EXCEPT ![t] = "rag_done"]
            /\ UNCHANGED <<calls, running>>
    /\ resp' = NoResp
    /\ UNCHANGED <<variant, ragSystemReady, now, nextId, responded, uploads, poll, ragCall, debrief>>

\* a retrieval whose failure is passed on as the answer
RagResultPassesError(out) ==
    IF out = "data" THEN [rag_analysis |-> "knowledge"]
    ELSE IF out = "report" THEN [risk_level |-> "unknown", note |-> "from the script"]
    ELSE IF out = "refused" THEN generateFallbackReport
    ELSE [error |-> out]

\* what callRAGSystem resolves with: the data of a successful answer; the
\* fallback_report of an answer with success:false, or generateFallbackReport()
\* if it has none; generateFallbackReport() on unparsable output, on a
\* non-zero exit or process error, and on the timeout
RagResult(out) ==
    IF out = "data" THEN [rag_analysis |-> "knowledge"]
    ELSE IF out = "report" THEN [risk_level |-> "unknown", note |-> "from the script"]
    ELSE generateFallbackReport

RagOutcomes == {"data", "report", "refused", "unparsable", "error", "timeout"}

\* the outcomes in which the collaborator gave no answer at all
RagLost == {"unparsable", "error", "timeout"}

RagReturn(t, out) ==
    /\ running = 0
    /\ pc[t] = "await_rag"
    /\ loc' = [loc EXCEPT ![t].ragKnowledge = RagResult(out),
                          ![t].ragLost = out \in RagLost]
    /\ calls' = Returned(t, out = "data")
    /\ pc' = [pc EXCEPT ![t] = "rag_done"]
    /\ running' = t
    /\ resp' = NoResp
    /\ UNCHANGED <<variant, ragSystemReady, now, nextId, taskStorage, responded,
                   uploads, poll, ragCall, debrief>>

RagDone(t) ==
    /\ running = t
    /\ pc[t] = "rag_done"
    /\ Progress(t, "knowledge retrieved", 70)
    /\ pc' = [pc EXCEPT ![t] = "final"]
    /\ resp' = NoResp
    /\ UNCHANGED <<variant, ragSystemReady, now, nextId, loc, running, responded,
                   uploads, calls, poll, ragCall, debrief>>

\* stage 5 up to await generateFinalReportWithGPT4o
FinalStart(t) ==
    /\ running = t
    /\ pc[t] = "final"
    /\ Progress(t, "generating final analysis", 80)
    /\ calls' = Called(t)
    /\ pc' = [pc EXCEPT ![t] = "await_final"]
    /\ running' = 0
    /\ resp' = NoResp
    /\ UNCHANGED <<variant, ragSystemReady, now, nextId, loc, responded, uploads, poll, ragCall, debrief>>

\* what generateFinalReportWithGPT4o returns: the parsed report, the structured
\* substitute for unparsable output, or generateFallbackReport()
FinalReport(out) ==
    IF out = "report" THEN [risk_level |-> "assessed"]
    ELSE IF out = "unparsable" THEN [risk_level |-> "medium", note |-> "structured"]
    ELSE generateFallbackReport

FinalOutcomes == {"report", "unparsable", "error"}

FinalReturn(t, out) ==
    /\ running = 0
    /\ pc[t] = "await_final"
    /\ loc' = [loc EXCEPT ![t].finalReport = FinalReport(out)]
    /\ calls' = Returned(t, out = "report")
    /\ Progress(t, "building response", 90)
    /\ pc' = [pc EXCEPT ![t] = "result"]
    /\ running' = t
    /\ resp' = NoResp
    /\ UNCHANGED <<variant, ragSystemReady, now, nextId, responded, uploads, poll, ragCall, debrief>>

\* stage 6: the response object handed to setTaskResult
Response(l) ==
    IF variant = "main"
    THEN [success |-> TRUE, user_info |-> l.userInfo,
          image_analyses |-> l.imageAnalyses, rag_knowledge |-> l.ragKnowledge,
          final_report |-> l.finalReport,
          images_processed |-> Len(l.imageAnalyses)]
    ELSE [success |-> TRUE, user_info |-> l.userInfo,
          rag_knowledge |-> l.ragKnowledge, final_report |-> l.finalReport]

SetResult(t) ==
    /\ running = t
    /\ pc[t] = "result"
    /\ taskStorage' = setTaskResult(taskStorage, t, Response(loc[t]))
    /\ pc' = [pc EXCEPT ![t] = "return"]
    /\ resp' = NoResp
    /\ UNCHANGED <<variant, ragSystemReady, now, nextId, loc, running, responded,
                   uploads, calls, poll, ragCall, debrief>>

\* the top-level catch: the uploaded files still on disk are removed, then setTaskError
Catch(t) ==
    /\ running = t
    /\ pc[t] = "catch"
    /\ taskStorage' = setTaskError(taskStorage, t, loc[t].error)
    /\ loc' = [loc EXCEPT ![t].disk = {}]
    /\ pc' = [pc EXCEPT ![t] = AfterCatch]
    /\ resp' = NoResp
    /\ UNCHANGED <<variant, ragSystemReady, now, nextId, running, responded, uploads,
                   calls, poll, ragCall, debrief>>

\* the pipeline function returns and its locals die
Return(t) ==
    /\ running = t
    /\ pc[t] = "return"
    /\ pc' = [pc EXCEPT ![t] = "done"]
    /\ loc' = [loc EXCEPT ![t] = [NoLocals EXCEPT !.disk = loc[t].disk]]
    /\ running' = 0
    /\ resp' = NoResp
    /\ UNCHANGED <<variant, ragSystemReady, now, nextId, taskStorage, responded,
                   uploads, calls, poll, ragCall, debrief>>

\* ------------------------------------------- pipeline of src/api/server.js
\* processAnalysisVercel up to the spawn of callRAGSystemVercel; a spawn that
\* throws inside the Promise executor rejects the promise
VercelStart(t, spawned) ==
    /\ running = t
    /\ pc[t] = "v_start"
    /\ IF spawned
       THEN /\ pc' = [pc EXCEPT ![t] = "v_await_rag"]
            /\ running' = 0
            /\ calls' = Called(t)
            /\ UNCHANGED loc
       ELSE /\ pc' = [pc EXCEPT ![t] = "catch"]
            /\ loc' = [loc EXCEPT ![t].error = RuntimeError]
            /\ calls' = Called(t)
            /\ UNCHANGED running
    /\ resp' = NoResp
    /\ UNCHANGED <<variant, ragSystemReady, now, nextId, taskStorage, responded,
                   uploads, poll, ragCall, debrief>>

\* what callRAGSystemVercel resolves with
VercelRagResult(ok) ==
    IF ok THEN [answer |-> "knowledge", failed |-> FALSE]
    ELSE [answer |-> "general advice", failed |-> TRUE]

\* callRAGSystemVercel resolves; generateFinalReport is called
VercelRagReturn(t, ok) ==
    /\ running = 0
    /\ pc[t] = "v_await_rag"
    /\ loc' = [loc EXCEPT ![t].ragKnowledge = VercelRagResult(ok)]
    /\ calls' = Returned(t, ok)
    /\ pc' = [pc EXCEPT ![t] = "v_await_final"]
    /\ resp' = NoResp
    /\ UNCHANGED <<variant, ragSystemReady, now, nextId, taskStorage, running,
                   responded, uploads, poll, ragCall, debrief>>

\* generateFinalReport returns
VercelFinalReturn(t, out) ==
    /\ running = 0
    /\ pc[t] = "v_await_final"
    /\ loc' = [loc EXCEPT ![t].finalReport = FinalReport(out)]
    /\ calls' = Returned(t, out = "report")
    /\ pc' = [pc EXCEPT ![t] = "result"]
    /\ running' = t
    /\ resp' = NoResp
    /\ UNCHANGED <<variant, ragSystemReady, now, nextId, taskStorage, responded,
                   uploads, poll, ragCall, debrief>>

\* ------------------------------------------------------------ client poller
\* pollTaskStatus(taskId) is called with the id of a submission response
PollStart(t) ==
    /\ poll.state = "idle"
    /\ t \in responded
    /\ poll' = [NotPolling EXCEPT !.state = "polling", !.taskId = t]
    /\ resp' = NoResp
    /\ UNCHANGED <<variant, ragSystemReady, now, nextId, taskStorage, pc, loc, running,
                   responded, uploads, calls, ragCall, debrief>>

TimeoutError == [message |-> "task timed out"]

\* a catch block that gives up at the first error
PollCatchAborts(p, pollError) == [p EXCEPT !.state = "threw", !.out = pollError]

\* catch (pollError): the last poll rethrows, any other waits 2 s and goes on
PollCatch(p, pollError) ==
    IF p.i = maxPolls - 1
    THEN [p EXCEPT !.state = "threw", !.out = pollError]
    ELSE [p EXCEPT !.i = @ + 1]

\* what fetch rejects with, and what the poller throws on !statusResponse.ok
FetchError == [message |-> "fetch failed"]
StatusError == [message |-> "status query failed"]

\* a poll that did not get a status: last and errors remember it
PollFailed(p) == [p EXCEPT !.last = "error", !.errors = TRUE]

\* a loop that polls again without counting the poll, as long as the task is
\* not finished
PollIterationUncounted(p, delivered, r) ==
    IF ~delivered THEN PollCatch(PollFailed(p), FetchError)
    ELSE IF r.code # 200 THEN PollCatch(PollFailed(p), StatusError)
    ELSE IF r.completed
    THEN IF "failed" \in DOMAIN r /\ r.failed
         THEN PollCatch([p EXCEPT !.saw = "failed", !.last = "status"], r.error)
         ELSE [p EXCEPT !.saw = "completed", !.last = "status",
                        !.state = "returned", !.out = r.result]
    ELSE [p EXCEPT !.last = "status"]

\* one iteration of the for loop on the answer r of the status endpoint, or on
\* a fetch that failed (delivered = FALSE)
PollIteration(p, delivered, r) ==
    IF ~delivered THEN PollCatch(PollFailed(p), FetchError)
    ELSE IF r.code # 200 THEN PollCatch(PollFailed(p), StatusError)
    ELSE IF r.completed
    THEN IF "failed" \in DOMAIN r /\ r.failed
         THEN PollCatch([p EXCEPT !.saw = "failed", !.last = "status"], r.error)
         ELSE [p EXCEPT !.saw = "completed", !.last = "status",
                        !.state = "returned", !.out = r.result]
    ELSE IF p.i < maxPolls - 1
         THEN [p EXCEPT !.i = @ + 1, !.last = "status"]
         ELSE [p EXCEPT !.i = @ + 1, !.last = "status", !.state = "threw",
                        !.out = TimeoutError]

PollFetch(delivered) ==
    /\ poll.state = "polling"
    /\ running = 0
    /\ poll' = PollIteration([poll EXCEPT !.requests = @ + 1], delivered,
                             StatusResponse(taskStorage, poll.taskId))
    /\ resp' = NoResp
    /\ UNCHANGED <<variant, ragSystemReady, now, nextId, taskStorage, pc, loc, running,
                   responded, uploads, calls, ragCall, debrief>>

\* ------------------------------------------------------------ specification
Pipeline(t) ==
    \/ StartTask(t)
    \/ Validate(t)
    \/ FilterFiles(t)
    \/ ItemStart(t)
    \/ \E c \in {"chat", "photo", "fail"} : ClassifyReturn(t, c)
    \/ \E ok \in BOOLEAN : AnalyzeReturn(t, ok)
    \/ ExpandStart(t)
    \/ \E ok \in BOOLEAN : EnhanceReturn(t, ok)
    \/ RagStart(t)
    \/ \E out \in RagOutcomes : RagReturn(t, out)
    \/ RagDone(t)
    \/ FinalStart(t)
    \/ \E out \in FinalOutcomes : FinalReturn(t, out)
    \/ SetResult(t)
    \/ Catch(t)
    \/ Return(t)
    \/ \E spawned \in BOOLEAN : VercelStart(t, spawned)
    \/ \E ok \in BOOLEAN : VercelRagReturn(t, ok)
    \/ \E out \in FinalOutcomes : VercelFinalReturn(t, out)

\* the requests sent: every nickname without anything else, a nickname with
\* every description and every list of files, and a blank nickname with files
Requests ==
    {<<nickname, <<>>, <<>> >> : nickname \in NicknameFields}
    \cup {<< << <<" ", "A">> >>, bio, files >> :
              bio \in BioFields, files \in FileLists(MaxFiles) \cup {TooManyFiles}}
    \cup {<< << <<>> >>, <<>>, files >> :
              files \in FileLists(MaxFiles) \cup {TooManyFiles}}

\* the files of a request fit the bound on the files received
Fits(files) == Len(files) <= UploadLimit => uploads + Len(files) <= MaxFiles

Submit ==
    \/ \E r \in Requests : Fits(r[3]) /\ SubmitMain(r[1], r[2], r[3])
    \/ \E r \in Requests : Fits(r[3]) /\ SubmitVercel(r[1], r[2], Len(r[3]))

\* the server within one sweep period: the clock stands still
Next ==
    \/ Submit
    \/ \E taskId \in 0..MaxTasks : StatusQuery(taskId)
    \/ Sweep
    \/ \E t \in Ids : Pipeline(t)

Spec == Init /\ [][Next]_vars

\* one submission without attachments, its pipeline, the clock and the sweep,
\* and the client polling for the result
ProcessWithoutImages(t) ==
    \/ StartTask(t)
    \/ Validate(t)
    \/ FilterFiles(t)
    \/ ExpandStart(t)
    \/ \E ok \in BOOLEAN : EnhanceReturn(t, ok)
    \/ RagStart(t)
    \/ \E out \in RagOutcomes : RagReturn(t, out)
    \/ RagDone(t)
    \/ FinalStart(t)
    \/ \E out \in FinalOutcomes : FinalReturn(t, out)
    \/ SetResult(t)
    \/ Return(t)

PipelineWithoutImages(t) ==
    \/ ProcessWithoutImages(t)
    \/ Catch(t)
    \/ \E spawned \in BOOLEAN : VercelStart(t, spawned)
    \/ \E ok \in BOOLEAN : VercelRagReturn(t, ok)
    \/ \E out \in FinalOutcomes : VercelFinalReturn(t, out)

SubmitOnce ==
    /\ nextId = 1
    /\ \/ \E nickname \in NicknameFields : SubmitMain(nickname, <<>>, <<>>)
       \/ \E nickname \in NicknameFields : SubmitVercel(nickname, <<>>, 0)

NextPoll ==
    \/ SubmitOnce
    \/ Tick
    \/ Sweep
    \/ PipelineWithoutImages(1)
    \/ PollStart(1)
    \/ \E delivered \in BOOLEAN : PollFetch(delivered)

SpecPoll == Init /\ [][NextPoll]_vars

\* src/server.js, the one server with a sweep, over several sweep periods:
\* submissions without attachments, the clock, the sweep, the pipelines and
\* the status endpoint
InitSweep == Init /\ variant = "main"

SubmitPlain == \E nickname \in NicknameFields : SubmitMain(nickname, <<>>, <<>>)

NextSweep ==
    \/ SubmitPlain
    \/ \E taskId \in 0..MaxTasks : StatusQuery(taskId)
    \/ Tick
    \/ Sweep
    \/ \E t \in Ids : ProcessWithoutImages(t)

SpecSweep == InitSweep /\ [][NextSweep]_vars

\* src/server.js with one submission of up to MaxImages attachments and its
\* pipeline, every attachment empty or not, every analysis failing or not
SubmitImages ==
    /\ nextId = 1
    /\ \E bio \in BioFields, files \in FileLists(MaxImages) :
           SubmitMain(<< <<" ", "A">> >>, bio, files)

ImageLoop(t) ==
    \/ ItemStart(t)
    \/ \E c \in {"chat", "photo", "fail"} : ClassifyReturn(t, c)
    \/ \E ok \in BOOLEAN : AnalyzeReturn(t, ok)

NextImages ==
    \/ SubmitImages
    \/ StatusQuery(1)
    \/ ProcessWithoutImages(1)
    \/ ImageLoop(1)

SpecImages == InitSweep /\ [][NextImages]_vars

\* ==================================================================== claims
Terminal(task) == task.status \in {COMPLETED, FAILED}

\* the tasks in the store before and after a step
Kept == DOMAIN taskStorage \cap DOMAIN taskStorage'

\* C1: terminal states are absorbing.  Once a task is completed or failed, no
\* step changes its status, its result or its error.
C1_TerminalAbsorbing ==
    [][\A t \in Kept :
          Terminal(taskStorage[t]) =>
              /\ taskStorage'[t].status = taskStorage[t].status
              /\ taskStorage'[t].result = taskStorage[t].result
              /\ taskStorage'[t].error = taskStorage[t].error]_vars

\* a failed task whose pipeline has returned while another task's pipeline is
\* past its first stage
C1_Witness ==
    \E t \in DOMAIN taskStorage, u \in DOMAIN taskStorage :
        /\ taskStorage[t].status = FAILED
        /\ pc[t] = "done"
        /\ u # t
        /\ calls[u].made

\* C2: for every task in the store, a pending or processing task has neither
\* result nor error, a completed task has a result and no error, and a failed
\* task has an error and no result.
C2_ResultErrorMatchStatus ==
    \A t \in DOMAIN taskStorage :
        LET task == taskStorage[t]
        IN  /\ task.status \in {PENDING, PROCESSING} =>
                   task.result = Null /\ task.error = Null
            /\ task.status = COMPLETED => task.result # Null /\ task.error = Null
            /\ task.status = FAILED => task.error # Null /\ task.result = Null

\* the store holds a completed task and a failed one
C2_Witness ==
    \E t \in DOMAIN taskStorage, u \in DOMAIN taskStorage :
        /\ taskStorage[t].status = COMPLETED
        /\ taskStorage[t].result # Null
        /\ taskStorage[u].status = FAILED
        /\ taskStorage[u].error # Null

\* the progress values of the image loop for every number of attachments the
\* upload accepts: between 30 and 50, never decreasing from one item to the next
ImageProgressRises ==
    \A n \in 1..UploadLimit : \A i \in 0..(n - 1) :
        /\ ImageProgress(i, n) >= 30
        /\ ImageProgress(i, n) =< 50
        /\ i + 1 < n => ImageProgress(i + 1, n) >= ImageProgress(i, n)

\* C3: the progress of a task never decreases from its creation until it is
\* terminal, whatever the attachments and the outcome of each item's analysis.
C3_ProgressNeverDecreases ==
    /\ []ImageProgressRises
    /\ [][\A t \in Kept :
             ~Terminal(taskStorage[t]) =>
                 taskStorage'[t].progress >= taskStorage[t].progress]_vars

\* a task has gone through the image loop, one analysis having failed, and is
\* at the query stage
C3_Witness ==
    \E t \in DOMAIN taskStorage :
        /\ taskStorage[t].status = PROCESSING
        /\ taskStorage[t].progress = 55
        /\ loc[t].imageAnalyses # <<>>
        /\ ~loc[t].imageAnalyses[1].success

\* C4: progress is 0 while pending, within 0..100 while processing, and 100
\* exactly when the task is completed; a failed task never shows 100.
C4_ProgressMatchesStatus ==
    \A t \in DOMAIN taskStorage :
        LET task == taskStorage[t]
        IN  /\ task.status = PENDING => task.progress = 0
            /\ task.status = PROCESSING => task.progress \in 0..100
            /\ task.progress = 100 <=> task.status = COMPLETED

\* a completed task at 100 next to a task still in the image loop
C4_Witness ==
    \E t \in DOMAIN taskStorage, u \in DOMAIN taskStorage :
        /\ taskStorage[t].status = COMPLETED
        /\ taskStorage[t].progress = 100
        /\ taskStorage[u].status = PROCESSING
        /\ pc[u] = "await_analyze"

\* C5: a task leaves pending only for processing: the first store write of the
\* pipeline of either server sets the status to processing, and no step takes
\* a task from pending straight to completed or failed.
C5_PendingThenProcessing ==
    [][\A t \in Kept :
          taskStorage[t].status = PENDING /\ taskStorage'[t].status # PENDING =>
              taskStorage'[t].status = PROCESSING]_vars

\* the userInfo a task was submitted with
Submitted(task) ==
    IF variant = "main" THEN task.input_data.userInfo ELSE task.input_data

\* the task failed in stage 1, on a nickname that is missing
ValidationFailed(task) ==
    /\ task.error = [message |-> ValidationError.message]
    /\ NicknameMissing(Submitted(task))

\* the task failed on an exception thrown out of the stage sequence
ExceptionEscaped(task) == task.error = [message |-> RuntimeError.message]

\* C6: a task whose pipeline has returned is completed with a non-null result
\* however many of its collaborator calls failed, all of them included; it is
\* failed only if stage 1 rejected a missing nickname or an exception escaped
\* the stage sequence.
C6_DegradesGracefully ==
    \A t \in DOMAIN taskStorage :
        LET task == taskStorage[t]
        IN  /\ task.status = FAILED => ValidationFailed(task) \/ ExceptionEscaped(task)
            /\ pc[t] = "done" /\ task.status # FAILED =>
                   task.status = COMPLETED /\ task.result # Null

\* the pipeline of src/server.js has returned after calling classification,
\* query expansion, retrieval and synthesis, none of which succeeded, and the
\* task is completed with the error marker of its image in the result
C6_Witness ==
    \E t \in DOMAIN taskStorage :
        /\ variant = "main"
        /\ ragSystemReady
        /\ pc[t] = "done"
        /\ calls[t].made
        /\ ~calls[t].succeeded
        /\ ~NicknameMissing(Submitted(taskStorage[t]))
        /\ taskStorage[t].status = COMPLETED
        /\ taskStorage[t].result # Null
        /\ taskStorage[t].result.image_analyses # <<>>
        /\ taskStorage[t].result.final_report = generateFallbackReport

\* C7: a submission the upload admits whose nickname is empty or blank is
\* answered with a 4xx response carrying success:false, adds no task to the
\* store and starts no pipeline, in either server.
C7_MissingNicknameRejected ==
    [][resp'.kind = "submit" /\ resp'.attachments <= UploadLimit
            /\ NicknameMissing(resp'.request) =>
          /\ resp'.code \in 400..499
          /\ ~resp'.success
          /\ taskStorage' = taskStorage
          /\ pc' = pc]_vars

\* what a successful submission response says about the store: one new record
\* under the id it carries, pending, at 0, without result or error, the other
\* records untouched, and a status query on the new store finds it
OneTaskCreated ==
    LET id == resp'.task_id
    IN  /\ id \notin DOMAIN taskStorage
        /\ DOMAIN taskStorage' = DOMAIN taskStorage \cup {id}
        /\ \A k \in DOMAIN taskStorage : taskStorage'[k] = taskStorage[k]
        /\ taskStorage'[id].status = PENDING
        /\ taskStorage'[id].progress = 0
        /\ taskStorage'[id].result = Null
        /\ taskStorage'[id].error = Null
        /\ StatusResponse(taskStorage', id).code = 200
        /\ StatusResponse(taskStorage', id).task_id = id

\* C8 as stated: a submission with a nickname is accepted whatever the other
\* text fields and whatever the number of attachments, and creates exactly one
\* pending task that the response names.
C8_AcceptedWhateverAttachments ==
    [][resp'.kind = "submit" =>
          /\ ~NicknameMissing(resp'.request) => resp'.success
          /\ resp'.success => OneTaskCreated]_vars

\* C8, amended: a submission with a nickname and at most UploadLimit
\* attachments is accepted whatever the other text fields, and creates exactly
\* one pending task that the response names; with more attachments it is
\* answered 500 and the store is left as it was.
C8_AcceptedUpToLimit ==
    [][resp'.kind = "submit" =>
          /\ ~NicknameMissing(resp'.request) /\ resp'.attachments <= UploadLimit =>
                 resp'.success
          /\ resp'.attachments > UploadLimit =>
                 ~resp'.success /\ resp'.code = 500 /\ taskStorage' = taskStorage
          /\ resp'.success => OneTaskCreated]_vars

\* the second submission, without description and with a file, has just been
\* accepted while the first task is still in the store
C8_Witness ==
    /\ resp.kind = "submit"
    /\ resp.success
    /\ resp.task_id = 2
    /\ resp.request.bioOrChatHistory = ""
    /\ resp.attachments = 1
    /\ DOMAIN taskStorage = {1, 2}
    /\ taskStorage[2].status = PENDING

\* the pipeline of task t has run its first step
Started(t) == pc[t] \notin {"none", "scheduled", "v_start"}

\* C9: the response carrying the task id is written before the pipeline does
\* anything: a task whose status has been updated, whose pipeline has started
\* or which has called a collaborator has had its response written.
C9_ResponseBeforePipeline ==
    \A t \in Ids :
        (\/ Started(t)
         \/ calls[t].made
         \/ (t \in DOMAIN taskStorage /\ taskStorage[t].status # PENDING))
            => t \in responded

\* a task of each kind of progress: one has called a collaborator, and its
\* response was written
C9_Witness ==
    \E t \in DOMAIN taskStorage :
        /\ t \in responded
        /\ calls[t].made
        /\ taskStorage[t].status = PROCESSING
        /\ taskStorage[t].progress = 30

\* C10: the poller stops at the first poll that sees a terminal status: it
\* has returned the result of a completed task, and on a failed task it has
\* thrown the task's error without polling again.
C10_StopsAtTerminal ==
    /\ poll.saw = "completed" =>
           /\ poll.state = "returned"
           /\ poll.out = taskStorage[poll.taskId].result
    /\ poll.saw = "failed" =>
           /\ poll.state = "threw"
           /\ poll.out = taskStorage[poll.taskId].error

\* C11: a poller that has used its whole budget of maxPolls polls without
\* seeing a terminal status has thrown the timeout error, whether its polls
\* got a non-terminal status or failed.
C11_BudgetEndsInTimeout ==
    poll.requests = maxPolls /\ poll.saw = "none" =>
        poll.state = "threw" /\ poll.out = TimeoutError

\* C12: a poll that fails while budget remains leaves the poller polling, at
\* the next poll; a poller that returns, after failed polls or not, returns
\* the result of the completed task; and the poller fails only on its last
\* poll.
C12_FailedPollIsRetried ==
    /\ [](poll.state = "threw" => poll.requests = maxPolls)
    /\ [](poll.state = "returned" =>
             /\ poll.saw = "completed"
             /\ poll.out # Null
             /\ poll.taskId \in DOMAIN taskStorage =>
                    poll.out = taskStorage[poll.taskId].result)
    /\ [][poll.state = "polling" /\ poll'.requests = poll.requests + 1
             /\ poll'.last = "error" /\ poll.i < maxPolls - 1 =>
               /\ poll'.state = "polling"
               /\ poll'.i = poll.i + 1]_vars

\* the poller has returned the result of a task after a poll that failed
C12_Witness ==
    /\ poll.state = "returned"
    /\ poll.errors
    /\ poll.requests > 1
    /\ poll.out # Null

\* taskTime < oneHourAgo: more than the retention window has passed since the
\* task was created
Expired(task) == now - task.created_at > Retention

\* C13 as stated: once more than the retention window has passed since a
\* task's creation, get and the status query report it absent, whatever its
\* status.
C13_ExpiredIsAbsent ==
    \A t \in Ids :
        variant = "main" /\ t \in DOMAIN taskStorage /\ Expired(taskStorage[t]) =>
            /\ getTask(taskStorage, t) = Null
            /\ StatusResponse(taskStorage, t).code = 404

\* C13, amended: in src/server.js a task past the retention window is still
\* reported until the next run of the sweep, which comes within one sweep
\* period; from that run on get and the status query report it absent,
\* whatever its status was, and an id once absent stays absent.
C13_AbsentOnceSwept ==
    /\ [](variant = "main" =>
             \A t \in DOMAIN taskStorage :
                 now - taskStorage[t].created_at <= Retention + 1)
    /\ [][Sweep =>
             \A t \in DOMAIN taskStorage :
                 Expired(taskStorage[t]) =>
                     /\ getTask(taskStorage', t) = Null
                     /\ StatusResponse(taskStorage', t).code = 404]_vars
    /\ [][\A t \in Ids :
             t < nextId /\ getTask(taskStorage, t) = Null =>
                 /\ getTask(taskStorage', t) = Null
                 /\ StatusResponse(taskStorage', t).code = 404]_vars

\* the status query has just answered 404 for a task that was swept while its
\* pipeline was waiting for a collaborator
C13_Witness ==
    /\ resp.kind = "status"
    /\ resp.code = 404
    /\ resp.task_id \in Ids
    /\ resp.task_id < nextId
    /\ pc[resp.task_id] \in {"await_enhance", "await_rag", "await_final"}
    /\ now > Retention

\* the store with the status of task t set to status
WithStatus(store, t, status) == [store EXCEPT ![t].status = status]

\* C14: one run of the sweep removes exactly the records created more than
\* the retention window ago, whatever their status, and leaves the others as
\* they were: after the run no record past the window is in the store.  The
\* same holds of cleanupOldTasks on every store met, with each status in turn
\* given to each of its records.
C14_SweepRemovesExpired ==
    /\ [][Sweep =>
             /\ DOMAIN taskStorage' =
                    {t \in DOMAIN taskStorage : ~Expired(taskStorage[t])}
             /\ \A t \in DOMAIN taskStorage' : taskStorage'[t] = taskStorage[t]
             /\ \A t \in DOMAIN taskStorage' :
                    ~(now' - taskStorage'[t].created_at > Retention)]_vars
    /\ [](\A t \in DOMAIN taskStorage :
             \A status \in {PENDING, PROCESSING, COMPLETED, FAILED} :
                 DOMAIN cleanupOldTasks(WithStatus(taskStorage, t, status)) =
                     {k \in DOMAIN taskStorage : ~Expired(taskStorage[k])})

\* the first task is gone, swept while still pending or processing, and the
\* younger second task is still in the store
C14_Witness ==
    /\ nextId = 3
    /\ DOMAIN taskStorage = {2}
    /\ pc[1] \notin {"none", "done"}
    /\ now - taskStorage[2].created_at <= Retention

\* the ids the store does not hold: issued and swept, or never issued
Unknown == (0..(MaxTasks + 1)) \ DOMAIN taskStorage

\* C15: updateTaskStatus, setTaskResult and setTaskError on an id the store
\* does not hold return the store as it is; a step of the pipeline of a task
\* that was swept leaves the store unchanged and does not land in the catch
\* block.
C15_UnknownIdIsNoOp ==
    /\ [](\A id \in Unknown :
             /\ updateTaskStatus(taskStorage, id, PROCESSING, "step", 10) = taskStorage
             /\ setTaskResult(taskStorage, id, [success |-> TRUE]) = taskStorage
             /\ setTaskError(taskStorage, id, RuntimeError) = taskStorage)
    /\ [][\A t \in Ids :
             t < nextId /\ t \notin DOMAIN taskStorage /\ pc'[t] # pc[t] =>
                 /\ taskStorage' = taskStorage
                 /\ pc'[t] # "catch"]_vars

\* the pipeline of a task that is no longer in the store has just called
\* setTaskResult and is about to return
C15_Witness ==
    \E t \in Ids :
        /\ t < nextId
        /\ t \notin DOMAIN taskStorage
        /\ pc[t] = "return"
        /\ running = t

\* the not-found answer of the status endpoint
NotFound(r) ==
    /\ r.code = 404
    /\ ~r.success
    /\ r.error = "task not found or expired"
    /\ DOMAIN r = {"kind", "code", "success", "error", "task_id"}

\* C16: a status query for an id the store does not hold is answered with the
\* not-found response (404, success:false, an error message) and changes
\* neither the store nor any pipeline, in either server.
C16_UnknownIdNotFound ==
    /\ [](\A id \in Unknown : NotFound(StatusResponse(taskStorage, id)))
    /\ [][resp'.kind = "status" /\ resp'.task_id \notin DOMAIN taskStorage =>
             /\ NotFound(resp')
             /\ taskStorage' = taskStorage
             /\ pc' = pc]_vars

\* the status endpoint has just answered 404 for an id not yet issued while
\* the store holds a task
C16_Witness ==
    /\ resp.kind = "status"
    /\ resp.code = 404
    /\ resp.task_id = 2
    /\ DOMAIN taskStorage = {1}

\* the response r carries every field of names
Fields(r, names) == names \subseteq DOMAIN r

\* C17: the status response of a task in the store follows its status, in
\* either server: pending or processing gives completed:false with status,
\* progress and current_step; completed gives completed:true with result and
\* processing_time; failed gives completed:true and failed:true with error,
\* processing_time and fallback_report.
C17_ResponseFollowsStatus ==
    resp.kind = "status" /\ resp.code = 200 =>
        /\ Fields(resp, {"status", "progress", "current_step", "completed"})
        /\ resp.status \in {PENDING, PROCESSING} => ~resp.completed
        /\ resp.status = COMPLETED =>
               /\ resp.completed
               /\ Fields(resp, {"result", "processing_time"})
        /\ resp.status = FAILED =>
               /\ resp.completed
               /\ Fields(resp, {"failed", "error", "processing_time", "fallback_report"})
               /\ resp.failed

\* C18: a status query leaves the task store as it was, ids and records, and
\* a query that follows a query of the same id with no step in between gets
\* the same answer.  The answer is the one the store determines: status,
\* progress, current_step, result and error are those of the record.
C18_QueryReadsOnly ==
    /\ [][resp'.kind = "status" =>
             /\ taskStorage' = taskStorage
             /\ resp' = StatusResponse(taskStorage, resp'.task_id)
             /\ resp.kind = "status" /\ resp.task_id = resp'.task_id =>
                    resp' = resp]_vars
    /\ [](resp.kind = "status" /\ resp.code = 200 =>
             /\ resp.task_id \in DOMAIN taskStorage
             /\ LET task == taskStorage[resp.task_id]
                IN  /\ resp.status = task.status
                    /\ resp.progress = task.progress
                    /\ resp.current_step = task.current_step
                    /\ "result" \in DOMAIN resp => resp.result = task.result
                    /\ "error" \in DOMAIN resp => resp.error = task.error)

\* the status endpoint has just answered with the result of a completed task,
\* which is still in the store
C18_Witness ==
    /\ resp.kind = "status"
    /\ resp.code = 200
    /\ resp.completed
    /\ resp.task_id \in DOMAIN taskStorage
    /\ taskStorage[resp.task_id].status = COMPLETED
    /\ resp.result = taskStorage[resp.task_id].result

\* two status responses that differ at most in the id they echo
SameAnswer(r, q) ==
    /\ DOMAIN r = DOMAIN q
    /\ \A f \in DOMAIN r \ {"task_id"} : r[f] = q[f]

\* C19: the status response for an id that was issued and then swept is the
\* response for an id never issued (same code, success flag and error text),
\* whatever the status, progress and result of the swept task were.
C19_SweptLooksUnknown ==
    /\ [](\A t \in Ids :
             t < nextId /\ t \notin DOMAIN taskStorage =>
                 SameAnswer(StatusResponse(taskStorage, t),
                            StatusResponse(taskStorage, 0)))
    /\ [](\A t \in DOMAIN taskStorage :
             \A status \in {PENDING, PROCESSING, COMPLETED, FAILED} :
                 Expired(taskStorage[t]) =>
                     SameAnswer(
                         StatusResponse(
                             cleanupOldTasks(WithStatus(taskStorage, t, status)), t),
                         StatusResponse(taskStorage, 0)))
    /\ [][resp'.kind = "status" /\ resp'.task_id \in Ids
             /\ resp'.task_id < nextId /\ resp'.task_id \notin DOMAIN taskStorage =>
               SameAnswer(resp', StatusResponse(taskStorage, 0))]_vars

\* the status endpoint has just answered 404 for a task that was swept after
\* it had completed, while a younger task is in the store
C19_Witness ==
    /\ resp.kind = "status"
    /\ resp.code = 404
    /\ resp.task_id = 1
    /\ pc[1] = "done"
    /\ DOMAIN taskStorage = {2}

\* C20: when the retrieval collaborator times out, exits with an error or
\* prints unparsable output, the pipeline goes on: it holds the fixed fallback
\* payload as its retrieval knowledge, never enters the catch block, and its
\* task is never failed and ends completed with that payload in the
\* retrieval field of the result.
C20_RetrievalFallback ==
    /\ [](\A out \in RagLost : RagResult(out) = generateFallbackReport)
    /\ [](\A t \in Ids :
             loc[t].ragLost =>
                 /\ loc[t].ragKnowledge = generateFallbackReport
                 /\ pc[t] \in {"rag_done", "final", "await_final", "result", "return"}
                 /\ t \in DOMAIN taskStorage => taskStorage[t].status # FAILED
                 /\ pc[t] = "return" /\ t \in DOMAIN taskStorage =>
                        /\ taskStorage[t].status = COMPLETED
                        /\ taskStorage[t].result.rag_knowledge = generateFallbackReport)

\* the pipeline is about to return after a retrieval that was lost: the task
\* is completed and its result holds the fallback payload
C20_Witness ==
    \E t \in DOMAIN taskStorage :
        /\ ragSystemReady
        /\ loc[t].ragLost
        /\ pc[t] = "return"
        /\ taskStorage[t].status = COMPLETED
        /\ taskStorage[t].result.rag_knowledge = generateFallbackReport
        /\ taskStorage[t].result.final_report # generateFallbackReport

\* an entry of imageAnalyses that records a failure
Failure(entry) == ~entry.success

\* the step of task t in which the item under analysis ends
ItemEnds(t) ==
    /\ pc[t] \in {"await_classify", "await_analyze"}
    /\ Len(loc'[t].imageAnalyses) = Len(loc[t].imageAnalyses) + 1

\* C21: a failure while classifying or analysing one attachment never fails
\* the task.  The step in which an item fails records an entry marked as a
\* failure for that item, leaves the task processing, and goes on to the next
\* item, or to the query expansion after the last one; at the query expansion
\* every valid attachment has its entry, in order.
C21_ItemFailureTolerated ==
    /\ [](\A t \in Ids :
            /\ pc[t] # "catch"
            /\ pc[t] \in {"item", "await_classify", "await_analyze"} =>
                   Len(loc[t].imageAnalyses) = loc[t].i
            /\ pc[t] = "expand" =>
                   /\ Len(loc[t].imageAnalyses) = Len(loc[t].valid)
                   /\ \A j \in 1..Len(loc[t].valid) :
                          loc[t].imageAnalyses[j].filename = loc[t].valid[j])
    /\ [][\A t \in Ids :
             (ItemEnds(t) /\ Failure(loc'[t].imageAnalyses[loc[t].i + 1])) =>
                 /\ loc'[t].imageAnalyses[loc[t].i + 1].filename
                        = loc[t].valid[loc[t].i + 1]
                 /\ loc'[t].i = loc[t].i + 1
                 /\ pc'[t] = (IF loc[t].i + 1 < Len(loc[t].valid)
                              THEN "item" ELSE "expand")
                 /\ t \in DOMAIN taskStorage'
                 /\ taskStorage'[t].status = PROCESSING]_vars

\* the pipeline is at the query expansion after three attachments: the first
\* failed at classification, the second at analysis, the third succeeded
C21_Witness ==
    \E t \in Ids :
        /\ pc[t] = "expand"
        /\ Len(loc[t].imageAnalyses) = 3
        /\ loc[t].imageAnalyses[1].classification = "error"
        /\ Failure(loc[t].imageAnalyses[2])
        /\ loc[t].imageAnalyses[2].classification # "error"
        /\ ~Failure(loc[t].imageAnalyses[3])

\* the pipeline of task t has ended
Ended(t) == pc[t] = "done" /\ t \in DOMAIN taskStorage /\ Terminal(taskStorage[t])

\* C22: when a task's pipeline has ended, completed or failed, none of the
\* files uploaded with its submission is left on local storage, whatever the
\* file's size and whatever the outcome of each collaborator call.
C22_NoFileLeft == \A t \in Ids : Ended(t) => loc[t].disk = {}

\* the stage a task in progress is in, by the progress its pipeline has
\* written: 1 validation, 2 media analysis, 3 query expansion, 4 retrieval,
\* 5 synthesis, 6 result
StageOf(progress) ==
    IF progress <= 20 THEN 1
    ELSE IF progress <= 50 THEN 2
    ELSE IF progress <= 58 THEN 3
    ELSE IF progress <= 70 THEN 4
    ELSE IF progress <= 80 THEN 5
    ELSE 6

\* the changes of (status, progress) a pipeline running alone makes to its
\* own record, from a to b
SoloStep(a, b) ==
    LET p == a.progress
        q == b.progress
    IN  IF variant = "main"
        THEN \/ a.status = PENDING /\ b.status = PROCESSING /\ p = 0 /\ q = 10
             \/ /\ a.status = PROCESSING
                /\ b.status = PROCESSING
                /\ \/ <<p, q>> \in {<<10, 20>>, <<20, 30>>, <<20, 50>>, <<55, 58>>,
                                    <<58, 60>>, <<60, 70>>, <<70, 80>>, <<80, 90>>}
                   \/ p \in 30..50 /\ q \in p..50
                   \/ p \in 30..50 /\ q = 55
             \/ a.status = PROCESSING /\ b.status = COMPLETED /\ p = 90 /\ q = 100
             \/ a.status = PROCESSING /\ b.status = FAILED /\ p = 10 /\ q = 10
        ELSE \/ a.status = PENDING /\ b.status = COMPLETED /\ p = 0 /\ q = 100
             \/ a.status = PENDING /\ b.status = FAILED /\ p = 0 /\ q = 0

\* the step is one of task t's pipeline, or the submission that starts it
StepOf(t) == pc'[t] # pc[t]

\* C23: with several pipelines interleaved at their awaits, a step of one
\* task's pipeline changes no other task's record, position or locals, and
\* every change of a task's (status, progress) is a change its pipeline makes
\* when it runs alone, the stages following one another in their fixed order.
C23_TasksIndependent ==
    [][/\ \A t \in Ids : \A u \in Ids \ {t} :
              StepOf(t) =>
                  /\ pc'[u] = pc[u]
                  /\ loc'[u] = loc[u]
                  /\ u \in DOMAIN taskStorage =>
                         /\ u \in DOMAIN taskStorage'
                         /\ taskStorage'[u] = taskStorage[u]
       /\ \A t \in Kept :
              LET a == taskStorage[t]
                  b == taskStorage'[t]
              IN  \/ a.status = b.status /\ a.progress = b.progress
                  \/ /\ SoloStep(a, b)
                     /\ StepOf(t)
                     /\ (a.status = PROCESSING /\ b.status = PROCESSING) =>
                            StageOf(b.progress) \in
                                {StageOf(a.progress), StageOf(a.progress) + 1}]_vars

\* two pipelines are suspended at the same time, the task submitted second
\* being ahead of the one submitted first
C23_Witness ==
    /\ DOMAIN taskStorage = {1, 2}
    /\ pc[1] = "await_classify"
    /\ pc[2] = "await_final"
    /\ taskStorage[1].progress < taskStorage[2].progress

\* one submission with at most MaxFiles attachments, on either server, its
\* pipeline, the clock and the sweep; the pipeline is never left waiting for
\* ever: every collaborator call returns, fails or times out, and the event
\* loop runs every callback that is ready
SubmitLive ==
    /\ nextId = 1
    /\ \E nickname \in NicknameFields, files \in FileLists(MaxFiles) :
           /\ Fits(files)
           /\ \/ SubmitMain(nickname, <<>>, files)
              \/ SubmitVercel(nickname, <<>>, Len(files))

NextLive ==
    \/ SubmitLive
    \/ Tick
    \/ Sweep
    \/ Pipeline(1)

SpecLive == Init /\ [][NextLive]_vars /\ WF_vars(Pipeline(1))

\* C24: every task whose pipeline has started eventually has status completed
\* or failed, given that every collaborator call returns, fails or times out
\* and the process keeps running.
C24_StartedEndsTerminal ==
    \A t \in Ids :
        Started(t) ~> (t \in DOMAIN taskStorage /\ Terminal(taskStorage[t]))

\* C24, amended: every pipeline that has started eventually returns, and from
\* then on its task is completed or failed unless the sweep has removed it;
\* a task the sweep removes while its pipeline is in flight never gets a
\* terminal status.
C24_StartedEndsOrSwept ==
    \A t \in Ids :
        Started(t) ~> [](/\ pc[t] = "done"
                         /\ t \in DOMAIN taskStorage => Terminal(taskStorage[t]))

\* the pipeline of a task is waiting for the retrieval while the sweep has
\* already removed its record
C24_Witness ==
    \E t \in Ids :
        /\ pc[t] = "await_rag"
        /\ t \notin DOMAIN taskStorage

\* C25: processing_time is 0 until the task becomes terminal; the step that
\* makes the task completed or failed sets it to the time elapsed since the
\* task's creation; no later step changes it.
C25_ProcessingTimeSetOnce ==
    /\ [](\A t \in DOMAIN taskStorage :
            ~Terminal(taskStorage[t]) => taskStorage[t].processing_time = 0)
    /\ [][\A t \in Kept :
             LET a == taskStorage[t]
                 b == taskStorage'[t]
             IN  /\ (~Terminal(a) /\ Terminal(b)) =>
                        b.processing_time = now' - a.created_at
                 /\ (~Terminal(a) /\ ~Terminal(b)) => b.processing_time = 0
                 /\ Terminal(a) => b.processing_time = a.processing_time]_vars

\* a task completed one period after its creation, another period later
C25_Witness ==
    \E t \in DOMAIN taskStorage :
        /\ taskStorage[t].status = COMPLETED
        /\ taskStorage[t].processing_time = 1
        /\ now = taskStorage[t].created_at + 2

\* C26: after its creation no step changes a task's id, created_at or
\* input_data, as long as the task is in the store: not a status update, a
\* result or error write, a status query, nor a sweep that removes other tasks.
C26_IdentityImmutable ==
    /\ [](\A t \in DOMAIN taskStorage : taskStorage[t].id = t)
    /\ [][\A t \in Kept :
             /\ taskStorage'[t].id = taskStorage[t].id
             /\ taskStorage'[t].created_at = taskStorage[t].created_at
             /\ taskStorage'[t].input_data = taskStorage[t].input_data]_vars

\* a sweep has removed the first task; the second, created later, is completed
\* and time has passed since its creation
C26_Witness ==
    /\ DOMAIN taskStorage = {2}
    /\ taskStorage[2].status = COMPLETED
    /\ taskStorage[2].created_at > 0
    /\ now > taskStorage[2].created_at
    /\ resp.kind = "status"

\* the userInfo a task was created with: src/server.js keeps it in
\* input_data.userInfo, src/api/server.js as input_data itself
InputUserInfo(task) ==
    IF "userInfo" \in DOMAIN task.input_data THEN task.input_data.userInfo
    ELSE task.input_data

\* the step takes task t to progress q, or to completed if q = 100, from the
\* progress p shown while processing
Reaches(t, p, q) ==
    (taskStorage'[t].progress = q /\ taskStorage[t].progress # q) =>
        /\ taskStorage[t].status = PROCESSING
        /\ taskStorage[t].progress = p
        /\ p < q

\* C27: for a submission with a non-empty identifier and no attachments, the
\* task's progress passes through at least 3 distinct, strictly increasing
\* values before the task is completed, on every server: completed is reached
\* from 90 only, 90 from 80 only and 80 from 70 only, each shown while the
\* task is processing.
C27_ThreeValuesBeforeCompleted ==
    [][\A t \in Kept :
          ~NicknameMissing(InputUserInfo(taskStorage[t])) =>
              /\ (taskStorage'[t].status = COMPLETED
                      /\ taskStorage[t].status # COMPLETED) =>
                     taskStorage'[t].progress = 100
              /\ Reaches(t, 90, 100)
              /\ Reaches(t, 80, 90)
              /\ Reaches(t, 70, 80)]_vars

\* C28: while a task's status is processing, its progress is between 10 and
\* 90 inclusive, whatever the number of attachments.
C28_ProcessingWithin10To90 ==
    /\ \A n \in 1..UploadLimit : \A i \in 0..(n - 1) : ImageProgress(i, n) \in 10..90
    /\ \A t \in DOMAIN taskStorage :
           taskStorage[t].status = PROCESSING => taskStorage[t].progress \in 10..90

\* a task with three attachments analysed is processing at 90
C28_Witness ==
    \E t \in DOMAIN taskStorage :
        /\ taskStorage[t].status = PROCESSING
        /\ taskStorage[t].progress = 90
        /\ Len(loc[t].imageAnalyses) = 3

\* processAnalysisTask called as a unit with any userInfo, a blank nickname
\* included: the endpoint of src/server.js refuses such a request before it
\* creates a task, so only a direct call takes the pipeline into the failure
\* of stage 1
InitDirect ==
    /\ variant = "main"
    /\ ragSystemReady \in BOOLEAN
    /\ now = 0
    /\ nextId = 2
    /\ \E nickname \in NicknameFields, bio \in BioFields, files \in FileLists(MaxFiles) :
           LET userInfo == UserInfo(nickname, bio)
           IN  /\ taskStorage = createTask([k \in {} |-> Null], 1,
                                    [userInfo |-> userInfo, filesCount |-> Len(files)])
               /\ loc = [t \in Ids |->
                            IF t = 1
                            THEN [NoLocals EXCEPT !.userInfo = userInfo,
                                                  !.files = files,
                                                  !.disk = 1..Len(files)]
                            ELSE NoLocals]
               /\ uploads = Len(files)
    /\ pc = [t \in Ids |-> IF t = 1 THEN "scheduled" ELSE "none"]
    /\ running = 0
    /\ responded = {}
    /\ resp = NoResp
    /\ calls = [t \in Ids |-> [made |-> FALSE, succeeded |-> FALSE]]
    /\ poll = NotPolling
    /\ ragCall = NotCalled
    /\ debrief = NoDebrief

NextDirect ==
    \/ StatusQuery(1)
    \/ ProcessWithoutImages(1)
    \/ ImageLoop(1)
    \/ Catch(1)

SpecDirect == InitDirect /\ [][NextDirect]_vars

\* C29: a pipeline run whose identifier fails the validation of stage 1 aborts
\* at once: it calls no collaborator, enters no later stage (its progress
\* stays at the 10 of stage 1), and ends with status failed and the validation
\* message as its error.
C29_InvalidAbortsAtStage1 ==
    \A t \in DOMAIN taskStorage :
        Trim(InputUserInfo(taskStorage[t]).nickname) = <<>> =>
            /\ ~calls[t].made
            /\ pc[t] \in {"scheduled", "validate", "catch", "return", "done"}
            /\ taskStorage[t].progress <= 10
            /\ taskStorage[t].status # COMPLETED
            /\ pc[t] \in {"return", "done"} =>
                   /\ taskStorage[t].status = FAILED
                   /\ taskStorage[t].error = ValidationError

\* the run for a nickname of blanks has returned, its task failed
C29_Witness ==
    \E t \in DOMAIN taskStorage :
        /\ taskStorage[t].input_data.userInfo.nickname = <<" ", " ">>
        /\ pc[t] = "done"
        /\ taskStorage[t].status = FAILED
        /\ taskStorage[t].progress = 10

\* the caller's description as written, unexpanded
OriginalQuery(userInfo) == [kind |-> "original", text |-> userInfo.bioOrChatHistory]

\* C30: when the query expansion fails, the query handed to the retrieval is
\* the caller's original, unexpanded description, and the pipeline goes on to
\* the retrieval stage; so for enhanceQueryWithAI of every server.
C30_FallsBackToOriginal ==
    \A t \in Ids :
        /\ pc[t] = "await_enhance" =>
               /\ FallbackQuery(loc[t].userInfo) = OriginalQuery(loc[t].userInfo)
               /\ FallbackQueryR2 = OriginalQuery(loc[t].userInfo)
        /\ (pc[t] \in {"rag", "await_rag"} /\ loc[t].enhancedQuery.kind # "enhanced") =>
               actualQuery(loc[t].userInfo, loc[t].enhancedQuery)
                   = OriginalQuery(loc[t].userInfo)

\* C31: a successful response to POST /api/generate_warning_report carries the
\* fields success, user_info, final_report and system_info.
C31_ResponseCarriesReport ==
    (resp.kind = "submit" /\ resp.code = 200) =>
        Fields(resp, {"success", "user_info", "final_report", "system_info"})

\* ------------------------------------------- callRAGSystem, event by event
\* the longest time a retrieval is followed, in minutes
MaxMinutes == 6

\* the delay given to setTimeout in callRAGSystem, in milliseconds
RagTimeoutMs(server) == IF server = "server.js" THEN 300000 ELSE 60000

\* the events of the child process and of the timer: 'close' with exit code 0
\* and the output it left ("data", "report", "refused", "unparsable"), 'close'
\* with another code ("exit"), 'error', and the timer ("timeout")
CloseEvents == {"data", "report", "refused", "unparsable", "exit"}

\* what callRAGSystem of src/server_r2.js passes to resolve: the parsed line
\* as it is, or an error object
RagResultR2(e) ==
    IF e \in {"data", "report", "refused"} THEN [answer |-> e]
    ELSE [error |-> e, answer |-> "", sources_count |-> 0]

\* the value an event handler of callRAGSystem passes to resolve
RagValue(server, e) ==
    IF server = "server.js" THEN RagResult(IF e = "exit" THEN "error" ELSE e)
    ELSE RagResultR2(e)

\* resolve(value) that overwrites the value of a settled promise
ResolveReplaces(pending, old, new) == new

\* resolve(value) settles a pending promise; on a settled one it does nothing
Resolve(pending, old, new) == IF pending THEN new ELSE old

\* callRAGSystem has been called by task t
RagSpawned(t) == ragCall.proc # "none"

\* an event handler calls resolve(RagValue(e)): the first call settles the
\* promise and the pipeline of task t goes on with the value after the await
RagEvent(t, e) ==
    LET pending == pc[t] = "await_rag"
        value == RagValue(ragCall.server, e)
    IN  /\ loc' = [loc EXCEPT ![t].ragKnowledge = Resolve(pending, @, value),
                              ![t].ragLost = IF pending THEN e \in RagLost \cup {"exit"}
                                             ELSE @]
        /\ calls' = IF pending THEN Returned(t, e = "data") ELSE calls
        /\ pc' = IF pending THEN [pc EXCEPT ![t] = "rag_done"] ELSE pc
        /\ running' = IF pending THEN t ELSE running
        /\ resp' = NoResp
        /\ UNCHANGED <<variant, ragSystemReady, now, nextId, taskStorage, responded,
                       uploads, poll, debrief>>

\* stage 4 up to await callRAGSystem, with the process spawned and the timer
\* set
RagSpawn(t, server) ==
    /\ running = t
    /\ pc[t] = "rag"
    /\ Progress(t, "retrieving knowledge", 60)
    /\ IF ragSystemReady
       THEN /\ calls' = Called(t)
            /\ pc' = [pc EXCEPT ![t] = "await_rag"]
            /\ running' = 0
            /\ ragCall' = [NotCalled EXCEPT !.server = server, !.proc = "running",
                                            !.timer = "armed"]
            /\ UNCHANGED loc
       ELSE /\ loc' = [loc EXCEPT ![t].ragKnowledge = generateFallbackReport]
            /\ pc' = [pc EXCEPT ![t] = "rag_done"]
            /\ UNCHANGED <<calls, running, ragCall>>
    /\ resp' = NoResp
    /\ UNCHANGED <<variant, ragSystemReady, now, nextId, responded, uploads, poll, debrief>>

\* pythonProcess.on('close'): a process that failed to start or was killed
\* closes with a code other than 0
RagClose(t, e) ==
    /\ running = 0
    /\ ragCall.proc \in {"running", "errored", "killed"}
    /\ ragCall.proc # "running" => e = "exit"
    /\ ragCall' = [ragCall EXCEPT !.proc = "closed", !.events = Append(@, e),
                                  !.settledAt = IF pc[t] = "await_rag"
                                                THEN ragCall.elapsed ELSE @]
    /\ RagEvent(t, e)

\* pythonProcess.on('error'); src/server_r2.js registers no such handler
RagProcError(t) ==
    /\ running = 0
    /\ ragCall.server = "server.js"
    /\ ragCall.proc = "running"
    /\ ragCall' = [ragCall EXCEPT !.proc = "errored", !.events = Append(@, "error"),
                                  !.settledAt = IF pc[t] = "await_rag"
                                                THEN ragCall.elapsed ELSE @]
    /\ RagEvent(t, "error")

\* the callback of setTimeout: the timer is never cleared, so it runs whether
\* the promise is settled or not; kill() ends a process that is still running
RagTimer(t) ==
    /\ running = 0
    /\ ragCall.timer = "armed"
    /\ ragCall.elapsed = RagTimeoutMs(ragCall.server)
    /\ ragCall' = [ragCall EXCEPT !.timer = "fired",
                                  !.proc = IF @ = "running" THEN "killed" ELSE @,
                                  !.events = Append(@, "timeout"),
                                  !.settledAt = IF pc[t] = "await_rag"
                                                THEN ragCall.elapsed ELSE @]
    /\ RagEvent(t, "timeout")

\* a minute passes after the spawn; a timer that is due has run
RagTick ==
    /\ running = 0
    /\ ragCall.proc # "none"
    /\ ragCall.elapsed + 60000 <= MaxMinutes * 60000
    /\ ragCall.timer = "armed" => ragCall.elapsed < RagTimeoutMs(ragCall.server)
    /\ ragCall' = [ragCall EXCEPT !.elapsed = @ + 60000]
    /\ resp' = NoResp
    /\ UNCHANGED <<variant, ragSystemReady, now, nextId, taskStorage, pc, loc, running,
                   responded, uploads, calls, poll, debrief>>

BeforeRag(t) ==
    \/ StartTask(t)
    \/ Validate(t)
    \/ FilterFiles(t)
    \/ ExpandStart(t)
    \/ \E ok \in BOOLEAN : EnhanceReturn(t, ok)

SubmitOne ==
    /\ nextId = 1
    /\ \E bio \in BioFields : SubmitMain(<< <<" ", "A">> >>, bio, <<>>)

AfterRag(t) ==
    \/ RagDone(t)
    \/ FinalStart(t)
    \/ \E out \in FinalOutcomes : FinalReturn(t, out)
    \/ SetResult(t)
    \/ Return(t)

\* one submission without attachments and its pipeline, the retrieval of
\* stage 4 followed event by event, with the callRAGSystem of either file
NextRag ==
    \/ SubmitOne
    \/ StatusQuery(1)
    \/ BeforeRag(1)
    \/ \E server \in {"server.js", "server_r2.js"} : RagSpawn(1, server)
    \/ \E e \in CloseEvents : RagClose(1, e)
    \/ RagProcError(1)
    \/ RagTimer(1)
    \/ RagTick
    \/ AfterRag(1)

SpecRag == InitSweep /\ [][NextRag]_vars

\* C32: the retrieval call is abandoned 180 seconds after it starts, and the
\* fallback payload takes the place of its answer: no call is still awaited
\* after 180 seconds, and a call the timer settled was settled at 180 seconds
\* with the fallback payload.
C32_AbandonedAfter180s ==
    /\ pc[1] = "await_rag" => ragCall.elapsed <= 180000
    /\ (ragCall.events # <<>> /\ ragCall.events[1] = "timeout") =>
           /\ ragCall.settledAt = 180000
           /\ loc[1].ragKnowledge = generateFallbackReport

\* C33: a task the sweep deleted while its pipeline was in flight never
\* reappears: an id that was issued and is no longer in the store stays out of
\* it whatever its pipeline does next; a record enters the store only as the
\* new record createTask makes for the next id, and records leave it only in a
\* run of the sweep.
C33_SweptNeverReappears ==
    [][/\ \A id \in Ids :
              (id < nextId /\ id \notin DOMAIN taskStorage) =>
                  id \notin DOMAIN taskStorage'
       /\ \A id \in DOMAIN taskStorage' \ DOMAIN taskStorage :
              /\ id = nextId
              /\ nextId' = nextId + 1
              /\ taskStorage'[id].status = PENDING
              /\ taskStorage'[id].created_at = now
              /\ resp'.kind = "submit"
       /\ (DOMAIN taskStorage \ DOMAIN taskStorage' # {}) =>
              /\ pc' = pc
              /\ \A id \in DOMAIN taskStorage \ DOMAIN taskStorage' :
                     now - taskStorage[id].created_at > Retention
              /\ \A id \in DOMAIN taskStorage' : taskStorage'[id] = taskStorage[id]]_vars

\* the record of a task was swept while its pipeline waited for the
\* retrieval, and the pipeline has since called updateTaskStatus for stage 5
\* and is waiting for the final report
C33_Witness ==
    \E t \in Ids :
        /\ t < nextId
        /\ t \notin DOMAIN taskStorage
        /\ pc[t] = "await_final"

\* C34: the sweep never deletes a task whose age at the time of the sweep is
\* at most the retention window: after the sweep, get still finds that task,
\* with every field as it was before the sweep.
C34_SweepSparesYoung ==
    [][Sweep =>
          \A t \in DOMAIN taskStorage :
              now - taskStorage[t].created_at <= Retention =>
                  /\ getTask(taskStorage', t) # Null
                  /\ getTask(taskStorage', t) = taskStorage[t]]_vars

\* the sweep has just removed the first task, created at time 0, at time
\* Retention + 1, and the second task, then exactly as old as the retention
\* window, is still in the store
C34_Witness ==
    /\ nextId = 3
    /\ now = Retention + 1
    /\ 1 \notin DOMAIN taskStorage
    /\ 2 \in DOMAIN taskStorage
    /\ now - taskStorage[2].created_at = Retention

\* the events of the retrieval of task t so far, the first one first
RagEvents == ragCall.events

\* C35: close, error and timeout race in callRAGSystem: the pipeline receives
\* the value of the event that occurred first, which is also the rag_knowledge
\* of the result it stores; an event that occurs after the first one changes
\* neither that value nor the pipeline's position nor the task store.
C35_FirstEventWins ==
    /\ [](RagEvents # <<>> =>
            /\ pc[1] \in {"rag_done", "final", "await_final", "result", "return"} =>
                   loc[1].ragKnowledge = RagValue(ragCall.server, RagEvents[1])
            /\ (1 \in DOMAIN taskStorage /\ taskStorage[1].status = COMPLETED) =>
                   taskStorage[1].result.rag_knowledge =
                       RagValue(ragCall.server, RagEvents[1]))
    /\ [][(RagEvents # <<>> /\ ragCall'.events # RagEvents) =>
             /\ taskStorage' = taskStorage
             /\ loc' = loc
             /\ pc' = pc]_vars

\* the process closed with an answer, the pipeline went on and completed the
\* task with that answer, and the timer fired afterwards
C35_Witness ==
    /\ RagEvents = <<"data", "timeout">>
    /\ 1 \in DOMAIN taskStorage
    /\ taskStorage[1].status = COMPLETED
    /\ taskStorage[1].result.rag_knowledge = [rag_analysis |-> "knowledge"]

\* C36: pollTaskStatus always terminates and sends at most maxPolls status
\* requests for one task, whatever each poll meets (a status that is not
\* terminal, a terminal one, a failed fetch, a not-found answer): a poller
\* that is polling has sent as many requests as the loop counter says, fewer
\* than maxPolls; every poll either ends the poller or moves the counter up by
\* one; and a poller that has returned or thrown sends no further request.
C36_PollerBounded ==
    /\ [](poll.requests <= maxPolls)
    /\ [](poll.state = "polling" => poll.i < maxPolls /\ poll.requests = poll.i)
    /\ [][(poll.state = "polling" /\ poll' # poll) =>
             /\ poll'.requests = poll.requests + 1
             /\ \/ poll'.state \in {"returned", "threw"}
                \/ poll'.state = "polling" /\ poll'.i = poll.i + 1]_vars
    /\ [][poll.state \in {"returned", "threw"} => poll' = poll]_vars

\* the poller has used all its polls and thrown, after it had seen the failed
\* status and had polls that got no status
C36_Witness ==
    /\ poll.state = "threw"
    /\ poll.requests = maxPolls
    /\ poll.saw = "failed"
    /\ poll.errors
    /\ poll.last = "error"

\* the attachments of a request that are valid: the files that are not empty
NonEmpty(files) == {j \in 1..Len(files) : files[j] > 0}

\* C37: once the media-analysis stage is over, the list of per-item analyses
\* has exactly one entry per valid attachment, in the order of the
\* attachments, each entry being the analysis of its item or the error marker
\* of its item; the result of the task carries that list, and its
\* images_processed is the number of valid attachments.
C37_OneEntryPerValidFile ==
    \A t \in Ids :
        LET a == loc[t].imageAnalyses
            nonEmpty == NonEmpty(loc[t].files)
        IN  /\ pc[t] \in {"expand", "await_enhance", "rag", "await_rag", "rag_done",
                          "final", "await_final", "result", "return"} =>
                   /\ Len(a) = Cardinality(nonEmpty)
                   /\ \A k \in 1..Len(a) :
                          /\ a[k].filename \in nonEmpty
                          /\ k > 1 => a[k - 1].filename < a[k].filename
                          /\ \/ a[k] = ErrorMarker(a[k].filename)
                             \/ a[k].classification \in {"chat", "photo"}
            /\ (/\ pc[t] = "return"
                /\ t \in DOMAIN taskStorage
                /\ taskStorage[t].status = COMPLETED) =>
                   /\ taskStorage[t].result.image_analyses = a
                   /\ taskStorage[t].result.images_processed = Cardinality(nonEmpty)

\* a task with a valid, an empty and another valid attachment is completed:
\* its result counts two images, the first with an error marker, the second
\* with its analysis
C37_Witness ==
    \E t \in DOMAIN taskStorage :
        /\ pc[t] = "return"
        /\ taskStorage[t].status = COMPLETED
        /\ loc[t].files = <<1, 0, 1>>
        /\ taskStorage[t].result.images_processed = 2
        /\ taskStorage[t].result.image_analyses[1] = ErrorMarker(1)
        /\ taskStorage[t].result.image_analyses[2].filename = 3
        /\ taskStorage[t].result.image_analyses[2].success

\* ------------------------------------------- POST /api/post_date_debrief
\* an error message, as the list of its parts; message.includes(part)
Includes(message, part) == \E k \in DOMAIN message : message[k] = part

\* new Error of processPostDateDebrief on transcriptionResult.success false;
\* "audio transcription failed" stands for the words the message starts with
TranscriptionFailed == [message |-> <<"audio transcription failed", "no speech">>]

\* the Error the retrieval rejects with on an exit code other than 0, which is
\* also how a process killed by the timer ends; its message starts with RAG
RagExited == [message |-> <<"RAG", "process exited abnormally">>]

\* the SyntaxError of JSON.parse and the error of a spawn that failed
RagUnparsable == [message |-> <<"Unexpected token">>]
RagSpawnFailed == [message |-> <<"spawn python ENOENT">>]

\* new Error of processPostDateDebrief on coachResponse.success false
CoachFailed == [message |-> <<"coach reply failed", "no completion">>]

\* what callPostDateRAGSystemWithEnhancedQuery rejects with
RagRejection(out) ==
    IF out \in {"exit", "timeout"} THEN RagExited
    ELSE IF out = "unparsable" THEN RagUnparsable
    ELSE RagSpawnFailed

\* catch (error) of processPostDateDebrief: the function returns a failure
\* object and never throws
DebriefCatch(error) ==
    [kind |-> "returned",
     result |-> [success |-> FALSE, error |-> error.message,
                 metadata |-> [error_type |-> "Error"]]]

\* a result processPostDateDebrief returns from its try block
DebriefReturns(processing_type) ==
    [kind |-> "returned",
     result |-> [success |-> TRUE, metadata |-> [processing_type |-> processing_type]]]

\* the answer of the endpoint to what await processPostDateDebrief(...) gave:
\* the branches of catch (processingError), then those on result.success
DebriefResponse(outcome) ==
    IF outcome.kind = "thrown"
    THEN IF Includes(outcome.error.message, "audio transcription failed")
         THEN [kind |-> "debrief", code |-> 422, success |-> FALSE,
               error_detail |-> outcome.error.message,
               error_type |-> "AudioTranscriptionError"]
         ELSE IF Includes(outcome.error.message, "RAG")
         THEN [kind |-> "debrief", code |-> 503, success |-> FALSE,
               error_detail |-> outcome.error.message,
               error_type |-> "RAGServiceError"]
         ELSE [kind |-> "debrief", code |-> 500, success |-> FALSE,
               error_detail |-> outcome.error.message,
               error_type |-> "InternalServerError"]
    ELSE IF outcome.result.success
    THEN [kind |-> "debrief", code |-> 200, success |-> TRUE,
          metadata |-> outcome.result.metadata]
    ELSE [kind |-> "debrief", code |-> 202, success |-> FALSE,
          error |-> outcome.result.error, metadata |-> outcome.result.metadata]

DebriefUnchanged ==
    UNCHANGED <<variant, ragSystemReady, now, nextId, taskStorage, pc, loc, running,
                responded, uploads, calls, poll, ragCall>>

\* the handler up to the first await of processPostDateDebrief, or its 400
DebriefPost(user_input, audio) ==
    /\ debrief.pc \in {"idle", "answered"}
    /\ running = 0
    /\ IF user_input = "" /\ ~audio
       THEN /\ resp' = [kind |-> "debrief", code |-> 400, success |-> FALSE,
                        error_type |-> "ValidationError"]
            /\ debrief' = [NoDebrief EXCEPT !.pc = "answered"]
       ELSE /\ resp' = NoResp
            /\ debrief' = [NoDebrief EXCEPT
                              !.pc = IF audio THEN "await_transcribe" ELSE "await_intent",
                              !.user_input = user_input, !.audio = audio]
    /\ DebriefUnchanged

\* transcribeAudioWithWhisper returns, with success: false when it failed
TranscribeReturn(ok) ==
    /\ debrief.pc = "await_transcribe"
    /\ running = 0
    /\ debrief' = IF ok
                  THEN [debrief EXCEPT !.transcription = [success |-> TRUE],
                                       !.pc = "await_intent"]
                  ELSE [debrief EXCEPT !.transcription = [success |-> FALSE],
                                       !.pc = "respond",
                                       !.outcome = DebriefCatch(TranscriptionFailed)]
    /\ resp' = NoResp
    /\ DebriefUnchanged

\* classifyUserIntent returns
IntentReturn(intent) ==
    /\ debrief.pc = "await_intent"
    /\ running = 0
    /\ debrief' = [debrief EXCEPT !.intent = intent,
                                  !.pc = IF intent = "SIMPLE_REPLY" THEN "await_simple"
                                         ELSE "await_enhance"]
    /\ resp' = NoResp
    /\ DebriefUnchanged

\* generateSimpleReply returns: its failure is answered with a stock reply
SimpleReplyReturn(ok) ==
    /\ debrief.pc = "await_simple"
    /\ running = 0
    /\ debrief' = [debrief EXCEPT !.pc = "respond",
                                  !.outcome = DebriefReturns("simple_reply")]
    /\ resp' = NoResp
    /\ DebriefUnchanged

\* enhanceQueryWithAI returns or throws; the retrieval is started
DebriefEnhanceReturn(out) ==
    /\ debrief.pc = "await_enhance"
    /\ running = 0
    /\ debrief' = [debrief EXCEPT !.enhancedQuery = out, !.pc = "await_rag"]
    /\ resp' = NoResp
    /\ DebriefUnchanged

\* callPostDateRAGSystemWithEnhancedQuery resolves (with an answer or with
\* success: false) or rejects
DebriefRagReturn(out) ==
    /\ debrief.pc = "await_rag"
    /\ running = 0
    /\ debrief' = IF out \in {"data", "refused"}
                  THEN [debrief EXCEPT !.rag = out, !.pc = "await_coach"]
                  ELSE [debrief EXCEPT !.rag = out, !.pc = "respond",
                                       !.outcome = DebriefCatch(RagRejection(out))]
    /\ resp' = NoResp
    /\ DebriefUnchanged

\* generateCoachResponseWithGPT4o returns
CoachReturn(ok) ==
    /\ debrief.pc = "await_coach"
    /\ running = 0
    /\ debrief' = [debrief EXCEPT
                      !.pc = "respond",
                      !.outcome = IF ok THEN DebriefReturns("deep_analysis_with_enhancement")
                                  ELSE DebriefCatch(CoachFailed)]
    /\ resp' = NoResp
    /\ DebriefUnchanged

\* the handler after await processPostDateDebrief(...)
DebriefRespond ==
    /\ debrief.pc = "respond"
    /\ resp' = DebriefResponse(debrief.outcome)
    /\ debrief' = [debrief EXCEPT !.pc = "answered"]
    /\ DebriefUnchanged

\* requests to the post-date debrief endpoint, one after the other, with text,
\* audio, both or neither, every collaborator succeeding or failing
NextDebrief ==
    \/ \E user_input \in {"", "text"}, audio \in BOOLEAN : DebriefPost(user_input, audio)
    \/ \E ok \in BOOLEAN : TranscribeReturn(ok)
    \/ \E intent \in {"SIMPLE_REPLY", "DEEP_ANALYSIS"} : IntentReturn(intent)
    \/ \E ok \in BOOLEAN : SimpleReplyReturn(ok)
    \/ \E out \in {"enhanced", "fallback", "original"} : DebriefEnhanceReturn(out)
    \/ \E out \in {"data", "refused", "exit", "timeout", "unparsable", "spawn"} :
           DebriefRagReturn(out)
    \/ \E ok \in BOOLEAN : CoachReturn(ok)
    \/ DebriefRespond

SpecDebrief == InitSweep /\ [][NextDebrief]_vars

\* C38: when the audio transcription fails, POST /api/post_date_debrief
\* answers 422 with error_type AudioTranscriptionError; when the retrieval
\* process fails, it answers 503 with error_type RAGServiceError.
C38_DebriefErrorCodes ==
    (resp.kind = "debrief" /\ debrief.pc = "answered") =>
        /\ (debrief.transcription # Null /\ ~debrief.transcription.success) =>
               /\ resp.code = 422
               /\ "error_type" \in DOMAIN resp
               /\ resp.error_type = "AudioTranscriptionError"
        /\ debrief.rag \in {"exit", "timeout"} =>
               /\ resp.code = 503
               /\ "error_type" \in DOMAIN resp
               /\ resp.error_type = "RAGServiceError"

\* C39: when a submission request ends with an error response, none of the
\* files uploaded with that request remains on local storage.
C39_RefusedLeavesNoFile ==
    (resp.kind = "submit" /\ resp.code \in {400, 500}) => resp.stored = 0

====
